---------------------------- MODULE Spec2Model ----------------------------
(***************************************************************************)
(* ResumeForge: the keyword extractor, the relevance scorer and the ATS    *)
(* scoring service, as state machines over token-level text.               *)
(*                                                                         *)
(* Text is a sequence of tokens joined by single spaces.  A token is a     *)
(* word with its letter case: "l" all lowercase, "u" all uppercase, "t"    *)
(* capitalised.  The full stop "." is a token of its own, so that the      *)
(* sequence <<required, python, ., aws>> is the string                     *)
(* "required python . aws".  Floats are kept exactly, in hundredths.       *)
(***************************************************************************)
EXTENDS Integers, Sequences, FiniteSets, TLC

VARIABLES
    pc,               \* position of the caller in the modelled call sequence
    job_description,  \* the caller's job description text
    keyword_scores,   \* KeywordExtractor.keyword_scores, in insertion order
    keywords,         \* the list KeywordExtractor.extract returned
    role_keywords_arg,\* customize_for_role's role_keywords argument
    role_keywords,    \* RelevanceScorer.role_keywords
    scorer_jd,        \* RelevanceScorer.job_description (lowercased)
    keyword_weights,  \* RelevanceScorer.keyword_weights
    calls,            \* the calls made to the function under study: [arg, ret]
    resume_data,      \* the caller's top-level resume mapping: key -> object
    customized_data,  \* the mapping customize_resume_data returned
    heap,             \* the objects the mappings refer to
    ats_keywords,     \* calculate_ats_score's keywords argument
    ats_score,        \* what calculate_ats_score returned, in hundredths
    raised,           \* the exception the last call raised, "none" if it returned
    threads           \* the concurrent customize_resume_data invocations

extractor_vars == <<keyword_scores, keywords>>
scorer_vars == <<role_keywords, scorer_jd, keyword_weights>>
resume_vars == <<resume_data, customized_data, heap>>
ats_vars == <<ats_keywords, ats_score>>
other_vars == <<raised, threads>>

vars == <<pc, job_description, keyword_scores, keywords, role_keywords_arg,
          role_keywords, scorer_jd, keyword_weights, calls, resume_data,
          customized_data, heap, ats_keywords, ats_score, raised, threads>>

(***************************************************************************)
(* Bounds of the model                                                     *)
(***************************************************************************)
MaxJdLen == 3
MaxFill == 61
MaxRoleFill == 20
MaxCalls == 2
MaxAch == 3
MaxJobs == 2
MaxAtsKeywords == 3
MaxWindowFill == 28

(***************************************************************************)
(* Strings                                                                 *)
(***************************************************************************)
Tok(w, c) == [word |-> w, case |-> c]

\* str.lower()
Lower(t) == [t EXCEPT !.case = "l"]

\* str.lower() of a text
LowerText(s) == [i \in 1..Len(s) |-> Lower(s[i])]

Range(s) == {s[i] : i \in 1..Len(s)}

\* words outside every lexicon, all of six lowercase letters
FillerWords ==
    << "termaa", "termab", "termac", "termad", "termae", "termaf", "termag",
       "termah", "termai", "termaj", "termak", "termal", "termam", "terman",
       "termao", "termap", "termaq", "termar", "termas", "termat", "termau",
       "termav", "termaw", "termax", "termay", "termaz", "termba", "termbb",
       "termbc", "termbd", "termbe", "termbf", "termbg", "termbh", "termbi",
       "termbj", "termbk", "termbl", "termbm", "termbn", "termbo", "termbp",
       "termbq", "termbr", "termbs", "termbt", "termbu", "termbv", "termbw",
       "termbx", "termby", "termbz", "termca", "termcb", "termcc", "termcd",
       "termce", "termcf", "termcg", "termch", "termci", "termcj", "termck",
       "termcl", "termcm", "termcn", "termco", "termcp", "termcq", "termcr" >>

FillerSet == Range(FillerWords)

\* len(str) of the words the inputs are built from
WordLen(w) ==
    IF w \in FillerSet THEN 6
    ELSE CASE w = "python" -> 6
           [] w = "aws" -> 3
           [] w = "java" -> 4
           [] w = "javascript" -> 10
           [] w = "xp" -> 2
           [] w = "team" -> 4
           [] w = "the" -> 3
           [] w = "inc" -> 3
           [] w = "required" -> 8
           [] w = "essential" -> 9
           [] w = "tools:" -> 6
           [] w = "tools" -> 5
           [] w = "." -> 1

\* a in b (substring) for two different words of the inputs
ProperSubstrings == {<<"java", "javascript">>, <<"tools", "tools:">>}

SubstringOf(a, b) == a = b \/ <<a, b>> \in ProperSubstrings

(***************************************************************************)
(* The lexicon (config/patterns.py); the alternatives of one word          *)
(***************************************************************************)
PRIORITY_PATTERNS ==
    << {"fintech", "payment", "payments", "trading", "defi", "blockchain",
        "cryptocurrency", "crypto"},
       {"compliance", "kyc", "aml", "regulatory", "custody", "oracle",
        "oracles", "yield"},
       {"tvl", "evm"},
       {"ethereum", "polygon", "bitcoin", "web3", "metamask", "chainlink"},
       {"architect", "cto", "director"},
       {"leadership", "management", "mentoring", "scaling"},
       {"python", "javascript", "typescript", "react", "nodejs", "node.js",
        "django", "flask"},
       {"java", "spring", "golang", "rust", "solidity"},
       {"aws", "azure", "gcp", "docker", "kubernetes", "microservices"},
       {"api", "rest", "restful", "graphql", "grpc", "websocket"},
       {"ci/cd", "devops", "jenkins", "gitlab"},
       {"postgresql", "mysql", "mongodb", "redis", "elasticsearch",
        "influxdb"},
       {"oracle", "cassandra", "dynamodb", "snowflake"},
       {"security", "oauth", "jwt", "encryption", "authentication",
        "authorization"},
       {"sox", "gdpr", "ccpa", "hipaa"},
       {"agile", "scrum", "kanban", "lean", "safe", "xp", "tdd", "bdd"},
       {"revenue", "efficiency", "performance", "scale", "growth"},
       {"million", "billion", "percent"},
       {"uptime", "sla", "latency", "throughput", "scalability"} >>

STOP_WORDS ==
    {"the", "and", "with", "for", "you", "will", "are", "have", "our", "this",
     "that", "from", "they", "been", "would", "there", "their", "what",
     "said", "each", "which", "were", "than", "but", "not", "all", "any",
     "can", "had", "was", "one", "your", "how", "use", "word", "may", "she",
     "oil", "its", "now", "him", "could", "did", "get", "has", "his", "her",
     "let", "put", "too", "also", "back", "call", "came", "come", "just",
     "like", "long", "look", "made", "make", "many", "over", "such", "take",
     "very", "well", "work", "who", "where", "when", "why", "some", "about",
     "into", "through", "during", "before", "after", "above", "below",
     "between", "among", "able", "team", "role", "position", "company",
     "business", "opportunity", "candidate"}

HIGH_PRIORITY_TERMS ==
    {"fintech", "blockchain", "defi", "python", "javascript", "react", "aws",
     "leadership", "management", "api", "postgresql", "docker",
     "microservices", "payments", "compliance", "security", "agile", "scrum",
     "ethereum", "trading", "yield", "tvl", "custody"}

(***************************************************************************)
(* KeywordExtractor (resume/keyword_extractor.py)                          *)
(***************************************************************************)
MAX_KEYWORDS == 60

\* a dict in insertion order: a sequence of [k, v]
DictIndex(d, key) ==
    IF \E i \in 1..Len(d) : d[i].k = key
    THEN CHOOSE i \in 1..Len(d) : d[i].k = key
    ELSE 0

\* if key not in d: d[key] = 0; d[key] += inc
DictAdd(d, key, inc) ==
    LET i == DictIndex(d, key)
    IN  IF i = 0 THEN Append(d, [k |-> key, v |-> inc])
        ELSE [d EXCEPT ![i].v = @ + inc]

\* for key in keys: DictAdd(d, key, inc).  The loop, closed: an old key
\* gains inc per occurrence, the new keys follow in the order of their first
\* occurrence.
Count(keys, key) == Cardinality({i \in 1..Len(keys) : keys[i] = key})

FirstOccurrences(d, keys) ==
    LET old == {d[i].k : i \in 1..Len(d)}
        idx == {i \in 1..Len(keys) :
                   /\ keys[i] \notin old
                   /\ \A j \in 1..(i - 1) : keys[j] # keys[i]}
    IN  SelectSeq([i \in 1..Len(keys) |-> IF i \in idx THEN <<keys[i]>> ELSE <<>>],
                  LAMBDA x : x # <<>>)

\* the loop with d[key] = inc in place of d[key] += inc
DictSetAll(d, keys, inc) ==
    [i \in 1..Len(d) |->
        [d[i] EXCEPT !.v = IF Count(keys, d[i].k) > 0 THEN inc ELSE @]]
    \o [i \in 1..Len(FirstOccurrences(d, keys)) |->
           [k |-> FirstOccurrences(d, keys)[i][1], v |-> inc]]

DictAddAll(d, keys, inc) ==
    [i \in 1..Len(d) |-> [d[i] EXCEPT !.v = @ + inc * Count(keys, d[i].k)]]
    \o [i \in 1..Len(FirstOccurrences(d, keys)) |->
           [k |-> FirstOccurrences(d, keys)[i][1],
            v |-> inc * Count(keys, FirstOccurrences(d, keys)[i][1])]]

\* re.findall(PRIORITY_PATTERNS[i - 1], text): \b(w1|w2|...)\b, in text order
PriorityMatches(text, i) ==
    SelectSeq(text, LAMBDA t : t.word \in PRIORITY_PATTERNS[i])

RECURSIVE PriorityFrom(_, _, _)
PriorityFrom(d, text, i) ==
    IF i > Len(PRIORITY_PATTERNS) THEN d
    ELSE PriorityFrom(
             DictAddAll(d, PriorityMatches(text, i),
                        Len(PRIORITY_PATTERNS) - (i - 1)),
             text, i + 1)

_extract_priority_keywords(d, text_lower) == PriorityFrom(d, text_lower, 1)

\* re.findall(r'\b[A-Z]{2,6}\b', job_description): the tokens of 2 to 6
\* uppercase letters
IsAcronym(t) ==
    /\ t.case = "u"
    /\ t.word \notin {".", "tools:"}
    /\ WordLen(t.word) >= 2
    /\ WordLen(t.word) <= 6

non_technical ==
    {"the", "and", "for", "you", "are", "our", "inc", "llc", "corp", "ltd"}

_extract_technical_terms(d, text) ==
    DictAddAll(d,
               LowerText(SelectSeq(text, LAMBDA t :
                   IsAcronym(t) /\ t.word \notin non_technical)),
               1)

\* the phrases that open a capture, per pattern, as sequences of words
requirement_patterns ==
    << {<<"required">>, <<"must", "have">>, <<"experience", "with">>,
        <<"proficient", "in">>, <<"knowledge", "of">>, <<"familiar", "with">>,
        <<"expertise", "in">>},
       {<<"skills", "in">>, <<"background", "in">>, <<"strong">>, <<"solid">>,
        <<"deep", "understanding", "of">>, <<"experience", "in">>},
       {<<a, b>> : a \in {"proficiency", "proficient", "expert", "advanced",
                          "intermediate"},
                   b \in {"in", "with"}}
       \cup {<<a, "knowledge", "of">> :
                   a \in {"proficiency", "proficient", "expert", "advanced",
                          "intermediate"}} >>

tech_stack_patterns ==
    << {<<"tech", "stack:">>, <<"technology", "stack:">>, <<"technologies:">>,
        <<"tools:">>, <<"framework:">>, <<"frameworks:">>},
       {<<"using:">>, <<"working", "with:">>, <<"built", "with:">>} >>

\* the phrase ph stands in text at token i
PhraseAt(text, i, ph) ==
    /\ i + Len(ph) - 1 <= Len(text)
    /\ \A j \in 1..Len(ph) : text[i + j - 1].word = ph[j]

\* the length of the phrase of phs standing at i, 0 when none does
OpenerAt(text, i, phs) ==
    IF \E ph \in phs : PhraseAt(text, i, ph)
    THEN Len(CHOOSE ph \in phs : PhraseAt(text, i, ph))
    ELSE 0

\* the full stops of the text, with both ends
Stops(text) == {0, Len(text) + 1} \cup {j \in 1..Len(text) : text[j].word = "."}

\* the first full stop after i
SentenceEnd(text, i) ==
    CHOOSE e \in Stops(text) : e > i /\ \A f \in Stops(text) : f > i => e <= f

\* a match of opener + \s+ + ([^.!?\n]+) starts at i: the opener stands there
\* and a token that is no full stop follows it
MatchAt(text, i, phs) ==
    /\ OpenerAt(text, i, phs) > 0
    /\ i + OpenerAt(text, i, phs) <= Len(text)
    /\ text[i + OpenerAt(text, i, phs)].word # "."

\* re.findall(pattern, text): a capture runs to the end of its sentence and
\* the scan goes on after it, so the first match of each sentence is the one
\* found.  The positions captured, over all sentences.
CapturedPositions(text, phs) ==
    UNION {LET e == SentenceEnd(text, s)
               starts == {i \in (s + 1)..(e - 1) : MatchAt(text, i, phs)}
           IN  IF starts = {} THEN {}
               ELSE LET i0 == CHOOSE i \in starts : \A j \in starts : i <= j
                    IN  (i0 + OpenerAt(text, i0, phs))..(e - 1)
           : s \in Stops(text) \ {Len(text) + 1}}

\* the captures of one pattern, concatenated in text order
Captures(text, phs) ==
    LET cap == CapturedPositions(text, phs)
    IN  SelectSeq([i \in 1..Len(text) |-> IF i \in cap THEN <<text[i]>> ELSE <<>>],
                  LAMBDA x : x # <<>>)

\* re.findall(r'\b[a-z]+(?:[.\-/][a-z]+)*\b', token): the label "tools:" holds
\* the term "tools", a word holds itself
TermOf(t) == IF t.word = "tools:" THEN Tok("tools", "l") ELSE t

\* the terms of the captures of one pattern that are longer than 2
CapturedTerms(text, phs) ==
    SelectSeq([i \in 1..Len(Captures(text, phs)) |->
                   TermOf(Captures(text, phs)[i][1])],
              LAMBDA t : WordLen(t.word) > 2)

RECURSIVE CapturesFrom(_, _, _, _, _)
CapturesFrom(d, text, patterns, i, inc) ==
    IF i > Len(patterns) THEN d
    ELSE CapturesFrom(DictAddAll(d, CapturedTerms(text, patterns[i]), inc),
                      text, patterns, i + 1, inc)

_extract_requirement_phrases(d, text_lower) ==
    CapturesFrom(d, text_lower, requirement_patterns, 1, 3)

_extract_tech_stack(d, text_lower) ==
    CapturesFrom(d, text_lower, tech_stack_patterns, 1, 2)


\* _filter_keywords without the stop-word test
FilterWithoutStopWords(d) ==
    LET kept == SelectSeq(d, LAMBDA e : WordLen(e.k.word) > 2 /\ e.v > 0)
    IN  [i \in 1..Len(kept) |-> kept[i].k]

_filter_keywords(d) ==
    LET kept == SelectSeq(d, LAMBDA e :
                    /\ Lower(e.k).word \notin STOP_WORDS
                    /\ WordLen(e.k.word) > 2
                    /\ e.v > 0)
    IN  [i \in 1..Len(kept) |-> kept[i].k]

\* sorted(xs, key=..., reverse=True), ks[i] the key of xs[i]: a stable sort.
\* xs[i] lands after every element of a greater key and after the earlier
\* elements of an equal key.
RankDesc(ks, i) ==
    1 + Cardinality({j \in 1..Len(ks) :
                        ks[j] > ks[i] \/ (ks[j] = ks[i] /\ j < i)})


\* sorted(xs, key=...)[::-1]: descending, equal keys in reversed order
SortedDescTiesReversed(xs, ks) ==
    [r \in 1..Len(xs) |->
        xs[CHOOSE i \in 1..Len(xs) :
               r = 1 + Cardinality({j \in 1..Len(ks) :
                                       ks[j] > ks[i] \/ (ks[j] = ks[i] /\ j > i)})]]

SortedDesc(xs, ks) ==
    [r \in 1..Len(xs) |-> xs[CHOOSE i \in 1..Len(xs) : RankDesc(ks, i) = r]]

\* xs[:n]
Take(xs, n) == SubSeq(xs, 1, IF Len(xs) < n THEN Len(xs) ELSE n)

\* the four passes of extract(), run on the extractor's keyword_scores d
PassesFrom(d, text) ==
    _extract_tech_stack(
        _extract_requirement_phrases(
            _extract_technical_terms(
                _extract_priority_keywords(d, LowerText(text)),
                text),
            LowerText(text)),
        LowerText(text))

\* keyword_scores after the four passes of extract() on a new extractor
ExtractPasses(text) == PassesFrom(<<>>, text)

\* the list extract() returns from the filled keyword_scores
ExtractResult(d) ==
    LET filtered_keywords == _filter_keywords(d)
        scores == [i \in 1..Len(filtered_keywords) |->
                      d[DictIndex(d, filtered_keywords[i])].v]
    IN  Take(SortedDesc(filtered_keywords, scores), MAX_KEYWORDS)

(***************************************************************************)
(* Inputs of the extractor                                                 *)
(***************************************************************************)
JdTokens ==
    {Tok("python", "l"), Tok("python", "u"), Tok("aws", "u"), Tok("java", "l"),
     Tok("javascript", "t"), Tok("xp", "l"), Tok("team", "l"),
     Tok("the", "u"), Tok("inc", "u"), Tok("required", "l"),
     Tok("tools:", "l"), Tok(".", "l"), Tok("termaa", "l")}

SeqsUpTo(S, n) == UNION {[1..m -> S] : m \in 0..n}

\* the first k filler words, lowercase
Fillers(k) == [i \in 1..k |-> Tok(FillerWords[i], "l")]

\* what follows the fillers: nothing, a stop word, a priority keyword, or
\* the last filler once more
LongTails(k) ==
    {<<>>, <<Tok("team", "l")>>, <<Tok("python", "u")>>,
     <<Tok(FillerWords[k], "l")>>}

\* "required <k fillers> <tail>": as many keywords as the cap needs
LongJds ==
    {<<Tok("required", "l")>> \o Fillers(tail[1]) \o tail[2] :
        tail \in UNION {{<<k, t>> : t \in LongTails(k)} :
                           k \in (MaxFill - 2)..MaxFill}}

\* job descriptions of stop words only, some written as acronyms
StopWordJds ==
    SeqsUpTo({Tok("team", "u"), Tok("the", "t"), Tok(".", "l")}, MaxJdLen)

JobDescriptions == SeqsUpTo(JdTokens, MaxJdLen) \cup LongJds \cup StopWordJds

(***************************************************************************)
(* extract_keywords_from_job_description, called on a job description      *)
(***************************************************************************)
\* a dict, as a function of its keys
EmptyDict == [k \in {} |-> 0]

DictSet(d, key, val) ==
    [k \in DOMAIN d \cup {key} |-> IF k = key THEN val ELSE d[k]]

NoHeap == [exp |-> <<>>, kw |-> EmptyDict, kwnew |-> EmptyDict]

\* the variables a specification does not use
IdleExtractor == keyword_scores = <<>> /\ keywords = <<>>

IdleScorer ==
    /\ role_keywords_arg = [given |-> FALSE, list |-> <<>>]
    /\ role_keywords = <<>>
    /\ scorer_jd = <<>>
    /\ keyword_weights = EmptyDict
    /\ calls = <<>>

IdleResume ==
    /\ resume_data = EmptyDict
    /\ customized_data = EmptyDict
    /\ heap = NoHeap

IdleAts == ats_keywords = <<>> /\ ats_score = 0

IdleOther == raised = "none" /\ threads = <<>>

InitExtract ==
    /\ pc = "extract"
    /\ job_description \in JobDescriptions
    /\ IdleExtractor
    /\ IdleScorer
    /\ IdleResume
    /\ IdleAts
    /\ IdleOther

\* KeywordExtractor(job_description).extract()
Extract ==
    /\ pc = "extract"
    /\ keyword_scores' = ExtractPasses(job_description)
    /\ keywords' = ExtractResult(keyword_scores')
    /\ pc' = "extracted"
    /\ UNCHANGED <<job_description, role_keywords_arg, scorer_vars, calls,
                   resume_vars, ats_vars, other_vars>>

NextExtract == Extract

SpecExtract == InitExtract /\ [][NextExtract]_vars

(***************************************************************************)
(* extract_keywords_from_job_description, called several times in a row    *)
(***************************************************************************)
MaxExtractions == 3

RepeatJds ==
    {<<>>,
     <<Tok("python", "l")>>,
     <<Tok("python", "u")>>,
     <<Tok("team", "u"), Tok("java", "l")>>,
     <<Tok("required", "l"), Tok("termaa", "l"), Tok("python", "l")>>,
     <<Tok("required", "l"), Tok("python", "l"), Tok("termaa", "l")>>,
     <<Tok("tools:", "l"), Tok("termab", "l"), Tok(".", "l"),
       Tok("javascript", "t")>>,
     <<Tok("aws", "u"), Tok("termab", "l"), Tok("aws", "l")>>}

InitRepeat ==
    /\ pc = "caller"
    /\ job_description = <<>>
    /\ IdleExtractor
    /\ IdleScorer
    /\ IdleResume
    /\ IdleAts
    /\ IdleOther


\* an extractor that keeps the scores of the extractor before it
KeptScores(previous) == previous

\* KeywordExtractor.__init__: self.keyword_scores = {}
FreshScores(previous) == <<>>

\* extract_keywords_from_job_description(jd): a new KeywordExtractor, extract()
ExtractCall(jd) ==
    /\ pc = "caller"
    /\ Len(calls) < MaxExtractions
    /\ job_description' = jd
    /\ keyword_scores' = PassesFrom(FreshScores(keyword_scores), jd)
    /\ keywords' = ExtractResult(keyword_scores')
    /\ calls' = Append(calls, [arg |-> jd, ret |-> keywords'])
    /\ UNCHANGED <<pc, role_keywords_arg, scorer_vars, resume_vars, ats_vars,
                   other_vars>>

NextRepeat == \E jd \in RepeatJds : ExtractCall(jd)

SpecRepeat == InitRepeat /\ [][NextRepeat]_vars

(***************************************************************************)
(* RelevanceScorer (resume/relevance_scorer.py).  Weights and scores are   *)
(* in hundredths: 1.0 is 100.                                              *)
(***************************************************************************)
RECURSIVE SumSeq(_, _, _)
SumSeq(s, lo, hi) ==
    IF lo > hi THEN 0
    ELSE IF lo = hi THEN s[lo]
    ELSE LET mid == (lo + hi) \div 2
         IN  SumSeq(s, lo, mid) + SumSeq(s, mid + 1, hi)

Sum(s) == SumSeq(s, 1, Len(s))

Min(a, b) == IF a < b THEN a ELSE b

\* the character offset of token i in the text
Offset(text, i) == Sum([j \in 1..(i - 1) |-> WordLen(text[j].word) + 1])

\* len(text)
TextLen(text) == IF text = <<>> THEN 0 ELSE Offset(text, Len(text) + 1) - 1

\* the tokens of the lowercase text in which kw occurs
Occurrences(text, kw) ==
    {j \in 1..Len(text) : SubstringOf(kw.word, text[j].word)}

\* kw in text (both lowercase)
InText(text, kw) == Occurrences(text, kw) # {}

requirement_contexts ==
    << <<"required">>, <<"must", "have">>, <<"essential">>, <<"mandatory">>,
       <<"experience", "with">>, <<"proficient", "in">>,
       <<"expertise", "in">> >>

\* context in job_description
ContextIn(text, ctx) == \E i \in 1..Len(text) : PhraseAt(text, i, ctx)

\* job_description.find(context)
ContextStart(text, ctx) ==
    Offset(text, CHOOSE i \in 1..Len(text) :
                     /\ PhraseAt(text, i, ctx)
                     /\ \A j \in 1..(i - 1) : ~PhraseAt(text, j, ctx))

CONTEXT_WINDOW == 200

\* kw_lower in job_description[context_start:context_start + 200]
InWindow(text, kw, start) ==
    \E j \in Occurrences(text, kw) :
        /\ Offset(text, j) >= start
        /\ Offset(text, j) + WordLen(kw.word)
               <= Min(start + CONTEXT_WINDOW, TextLen(text))

\* the loop over requirement_contexts, with its break: some context of the
\* text has the keyword in its window
InRequirementContext(text, kw) ==
    \E c \in 1..Len(requirement_contexts) :
        /\ ContextIn(text, requirement_contexts[c])
        /\ InWindow(text, kw, ContextStart(text, requirement_contexts[c]))

\* the weight with 0.5 for every context that has the keyword in its window
KeywordWeightStacked(text, kw_lower) ==
    LET occurrences == Cardinality(Occurrences(text, kw_lower))
    IN  100
        + (IF occurrences > 1 THEN Min(occurrences * 20, 100) ELSE 0)
        + 50 * Cardinality({c \in 1..Len(requirement_contexts) :
                 /\ ContextIn(text, requirement_contexts[c])
                 /\ InWindow(text, kw_lower,
                             ContextStart(text, requirement_contexts[c]))})
        + (IF kw_lower.word \in HIGH_PRIORITY_TERMS THEN 30 ELSE 0)

\* the weight of one keyword
KeywordWeight(text, kw_lower) ==
    LET occurrences == Cardinality(Occurrences(text, kw_lower))
    IN  100
        + (IF occurrences > 1 THEN Min(occurrences * 20, 100) ELSE 0)
        + (IF InRequirementContext(text, kw_lower) THEN 50 ELSE 0)
        + (IF kw_lower.word \in HIGH_PRIORITY_TERMS THEN 30 ELSE 0)

_calculate_keyword_weights(rks, text) ==
    [kw_lower \in {Lower(rks[i]) : i \in 1..Len(rks)} |->
        KeywordWeight(text, kw_lower)]

\* dict.get(key, default)
Get(d, key, default) == IF key \in DOMAIN d THEN d[key] ELSE default

\* bool(achievement.get('metrics'))
Truthy(metrics) == metrics = "value"

(***************************************************************************)
(* Exceptions.  A dict is a function of its keys; the record of a job, an  *)
(* achievement or a section holds the value each key has after the         *)
(* default of .get(), and names in its field missing the keys the dict     *)
(* does not have.  A resume_data that is no dict is the function           *)
(* [__class__ |-> type name].                                              *)
(***************************************************************************)
NonMapping(class) == [k \in {"__class__"} |-> class]

IsMapping(data) == "__class__" \notin DOMAIN data

\* the keys a dict lacks although its record has a field for them
Missing(obj) == IF "missing" \in DOMAIN obj THEN obj.missing ELSE {}

\* key in obj
Has(obj, key) ==
    /\ key \in DOMAIN obj
    /\ key \notin Missing(obj)
    /\ key = "metrics" => obj.metrics # "none"
    /\ key = "relevance_score" => obj.scored

\* the dict obj without the keys given, each read as its default
Without(obj, keys) ==
    [k \in DOMAIN obj \cup {"missing"} |->
        IF k = "missing" THEN keys
        ELSE IF k \in keys THEN <<>>
        ELSE obj[k]]

\* the first exception of a sequence of steps, "none" when each step returns
FirstRaised(steps) ==
    IF \A i \in 1..Len(steps) : steps[i] = "none" THEN "none"
    ELSE steps[CHOOSE i \in 1..Len(steps) :
                   /\ steps[i] # "none"
                   /\ \A j \in 1..(i - 1) : steps[j] = "none"]


\* obj[key]: a KeyError when the dict has no such key
ItemRaises(obj, key) == IF Has(obj, key) THEN "none" ELSE "KeyError"

\* obj.get(key, default) of a dict never raises
GetRaises(obj, key) == "none"

\* score_achievement reads keywords, text and metrics with .get()
score_raises(achievement) ==
    FirstRaised(<<GetRaises(achievement, "keywords"),
                  GetRaises(achievement, "text"),
                  GetRaises(achievement, "metrics")>>)

\* the first loop: the tags that are role keywords, at full weight
TagScore(rks, weights, achievement) ==
    Sum([i \in 1..Len(achievement.keywords) |->
            IF Lower(achievement.keywords[i]) \in Range(LowerText(rks))
            THEN Get(weights, Lower(achievement.keywords[i]), 100)
            ELSE 0])

\* the second loop: the role keywords in the text, at weight * 0.7
TextScore(rks, weights, achievement) ==
    Sum([i \in 1..Len(rks) |->
            IF InText(LowerText(achievement.text), Lower(rks[i]))
            THEN (Get(weights, Lower(rks[i]), 50) * 7) \div 10
            ELSE 0])


\* score_achievement without the bonus for metrics
ScoreWithoutMetrics(rks, weights, achievement) ==
    TagScore(rks, weights, achievement) + TextScore(rks, weights, achievement)

\* score_achievement with the bonus only for an achievement that matched
ScoreMetricsIfMatched(rks, weights, achievement) ==
    LET matched == TagScore(rks, weights, achievement)
                   + TextScore(rks, weights, achievement)
    IN  matched + (IF Truthy(achievement.metrics) /\ matched > 0 THEN 100 ELSE 0)

\* the score added to the relevance_score the achievement already has
ScoreAddedToPrevious(rks, weights, achievement) ==
    (IF achievement.scored THEN achievement.relevance_score ELSE 0)
    + TagScore(rks, weights, achievement)
    + TextScore(rks, weights, achievement)
    + (IF Truthy(achievement.metrics) THEN 100 ELSE 0)

score_achievement(rks, weights, achievement) ==
    TagScore(rks, weights, achievement)
    + TextScore(rks, weights, achievement)
    + (IF Truthy(achievement.metrics) THEN 100 ELSE 0)

\* the first loop of customize_resume_data: every achievement is scored
ScoreJob(rks, weights, job) ==
    [job EXCEPT !.achievements =
        [i \in 1..Len(job.achievements) |->
            [job.achievements[i] EXCEPT
                !.scored = TRUE,
                !.relevance_score =
                    score_achievement(rks, weights, job.achievements[i])]]]

\* achievement.get('relevance_score', 0)
ScoreOf(achievement) ==
    IF achievement.scored THEN achievement.relevance_score ELSE 0


\* achievements.sort(key=relevance_score), reverse=True forgotten
SortAscending(achievements) ==
    SortedDesc(achievements,
               [i \in 1..Len(achievements) |-> 0 - ScoreOf(achievements[i])])

\* the sort keeping only the achievements that matched something
SortRelevantOnly(achievements) ==
    LET sorted == SortedDesc(achievements,
                             [i \in 1..Len(achievements) |->
                                 ScoreOf(achievements[i])])
        Relevant(a) == ScoreOf(a) > 0
    IN  SelectSeq(sorted, Relevant)

\* achievements.sort(key=relevance_score, reverse=True)
SortAchievements(achievements) ==
    SortedDesc(achievements,
               [i \in 1..Len(achievements) |-> ScoreOf(achievements[i])])


\* ForceTop forcing only a top score of 0
ForceTopWhenZero(achievements) ==
    IF achievements # <<>> /\ ScoreOf(achievements[1]) = 0
    THEN [achievements EXCEPT ![1].scored = TRUE, ![1].relevance_score = 100]
    ELSE achievements

\* if achievements and achievements[0].relevance_score < 1: force it to 1.0
ForceTop(achievements) ==
    IF achievements # <<>> /\ ScoreOf(achievements[1]) < 100
    THEN [achievements EXCEPT ![1].scored = TRUE, ![1].relevance_score = 100]
    ELSE achievements

\* the second loop of customize_resume_data, for one job
SortJob(job) ==
    [job EXCEPT !.achievements = ForceTop(SortAchievements(@))]

ROLE_SPECIFIC_MAX == 20


\* role_specific without the slice
RoleSpecificUncut(rks) == rks

\* self.role_keywords[:20]
RoleSpecific(rks) == Take(rks, ROLE_SPECIFIC_MAX)

\* customized_data.get('experience', []), after both loops
CustomizedExperience(rks, weights, experience) ==
    [j \in 1..Len(experience) |-> SortJob(ScoreJob(rks, weights, experience[j]))]

(***************************************************************************)
(* Inputs of the scorer                                                    *)
(***************************************************************************)
None == [given |-> FALSE, list |-> <<>>]

Given(list) == [given |-> TRUE, list |-> list]

\* "required Python aws . python essential java"
MixedJd ==
    <<Tok("required", "l"), Tok("python", "t"), Tok("aws", "l"), Tok(".", "l"),
      Tok("python", "l"), Tok("essential", "l"), Tok("java", "l")>>

\* "javascript xp"
PlainJd == <<Tok("javascript", "l"), Tok("xp", "l")>>

ShortJds == {<<>>, MixedJd, PlainJd}

\* "required <k fillers> python": k + 1 keywords
RoleJds ==
    {<<Tok("required", "l")>> \o Fillers(k) \o <<Tok("python", "l")>> :
        k \in (MaxRoleFill - 2)..MaxRoleFill}

RoleKeywordArgs ==
    {None,
     Given(<<Tok("python", "t"), Tok("java", "l")>>),
     Given(<<Tok("aws", "u"), Tok("python", "l"), Tok("python", "u")>>)}

\* "required essential python python python python python python"
RepeatedJd ==
    <<Tok("required", "l"), Tok("essential", "l")>>
    \o [i \in 1..6 |-> Tok("python", "l")]

\* "required <k fillers> python" and "required <k fillers> required
\* python": python at the end of the 200 characters after the first
\* "required", or beyond them
WindowJds ==
    {<<Tok("required", "l")>> \o Fillers(k) \o again \o <<Tok("python", "l")>> :
        k \in (MaxWindowFill - 2)..MaxWindowFill,
        again \in {<<>>, <<Tok("required", "l")>>, <<Tok("essential", "l")>>}}

WeightJds == ShortJds \cup {RepeatedJd} \cup WindowJds

WeightKeywordArgs ==
    RoleKeywordArgs
    \cup {Given(<<Tok("python", "u")>>),
          Given(<<Tok("java", "l"), Tok("javascript", "l"), Tok("xp", "l")>>)}

AchTexts ==
    {<<>>, <<Tok("python", "t")>>, <<Tok("javascript", "l"), Tok("aws", "l")>>}

AchTags == {<<>>, <<Tok("python", "t")>>, <<Tok("aws", "l"), Tok("xp", "l")>>}

\* an achievement as the caller supplies it
Achievement(text, tags, metrics) ==
    [text |-> text, keywords |-> tags, metrics |-> metrics,
     scored |-> FALSE, relevance_score |-> 0]

ProbeAchievements ==
    {Achievement(t, k, m) :
        t \in AchTexts, k \in AchTags, m \in {"none", "empty", "value"}}

(***************************************************************************)
(* RelevanceScorer(role_keywords, job_description) and score_achievement   *)
(***************************************************************************)
InitScore ==
    /\ pc = "start"
    /\ job_description \in ShortJds
    /\ role_keywords_arg \in RoleKeywordArgs
    /\ IdleExtractor
    /\ role_keywords = <<>>
    /\ scorer_jd = <<>>
    /\ keyword_weights = EmptyDict
    /\ calls = <<>>
    /\ IdleResume
    /\ IdleAts
    /\ IdleOther

\* customize_for_role: role_keywords is None, the keywords are extracted
ExtractKeywords ==
    /\ pc = "start"
    /\ ~role_keywords_arg.given
    /\ keyword_scores' = ExtractPasses(job_description)
    /\ keywords' = ExtractResult(keyword_scores')
    /\ pc' = "keywords"
    /\ UNCHANGED <<job_description, role_keywords_arg, scorer_vars, calls,
                   resume_vars, ats_vars, other_vars>>

\* RelevanceScorer.__init__
NewScorer ==
    /\ \/ pc = "keywords"
       \/ pc = "start" /\ role_keywords_arg.given
    /\ role_keywords' =
           IF role_keywords_arg.given THEN role_keywords_arg.list ELSE keywords
    /\ scorer_jd' = LowerText(job_description)
    /\ keyword_weights' = _calculate_keyword_weights(role_keywords', scorer_jd')
    /\ pc' = "scorer"
    /\ UNCHANGED <<job_description, role_keywords_arg, extractor_vars, calls,
                   resume_vars, ats_vars, other_vars>>

\* RelevanceScorer.score_achievement(achievement)
ScoreAchievement(achievement) ==
    /\ pc = "scorer"
    /\ Len(calls) < MaxCalls
    /\ calls' = Append(calls,
                       [arg |-> achievement,
                        ret |-> score_achievement(role_keywords,
                                                  keyword_weights, achievement)])
    /\ UNCHANGED <<pc, job_description, role_keywords_arg, extractor_vars,
                   scorer_vars, resume_vars, ats_vars, other_vars>>

\* RelevanceScorer(role_keywords, job_description) and its weights alone
InitWeights ==
    /\ pc = "start"
    /\ job_description \in WeightJds
    /\ role_keywords_arg \in WeightKeywordArgs
    /\ IdleExtractor
    /\ role_keywords = <<>>
    /\ scorer_jd = <<>>
    /\ keyword_weights = EmptyDict
    /\ calls = <<>>
    /\ IdleResume
    /\ IdleAts
    /\ IdleOther

NextWeights ==
    \/ ExtractKeywords
    \/ NewScorer

SpecWeights == InitWeights /\ [][NextWeights]_vars

NextScore ==
    \/ ExtractKeywords
    \/ NewScorer
    \/ \E a \in ProbeAchievements : ScoreAchievement(a)

SpecScore == InitScore /\ [][NextScore]_vars

(***************************************************************************)
(* Resumes.  The top-level mapping holds references: "experience" refers   *)
(* to the list heap.exp, "keywords" to the dict heap.kw; heap.kwnew is the *)
(* dict customize_resume_data creates when the resume has none.            *)
(***************************************************************************)
AchUniverse ==
    {Achievement(<<>>, <<>>, "none"),
     Achievement(<<Tok("python", "t")>>, <<>>, "none"),
     Achievement(<<Tok("python", "t")>>, <<Tok("python", "t")>>, "none"),
     Achievement(<<>>, <<Tok("aws", "l"), Tok("xp", "l")>>, "value")}

\* a job with the achievements given, id the place in the caller's list
Job(achievements) ==
    [title |-> <<>>, company |-> <<>>, description |-> <<>>,
     achievements |->
        [i \in 1..Len(achievements) |->
            [id |-> i,
             text |-> achievements[i].text,
             keywords |-> achievements[i].keywords,
             metrics |-> achievements[i].metrics,
             scored |-> FALSE,
             relevance_score |-> 0]]]

OtherJobs ==
    {Job(<<>>),
     Job(<<Achievement(<<Tok("javascript", "l")>>, <<>>, "value"),
           Achievement(<<>>, <<>>, "value")>>)}

Experiences ==
    {<<Job(a)>> \o rest :
        a \in SeqsUpTo(AchUniverse, MaxAch),
        rest \in SeqsUpTo(OtherJobs, MaxJobs - 1)}

FewExperiences ==
    {<<Job(<<Achievement(<<Tok("python", "t")>>, <<>>, "none"),
             Achievement(<<>>, <<Tok("python", "l")>>, "value")>>)>>}

KeywordsSections ==
    {EmptyDict,
     [c \in {"technical"} |-> <<Tok("aws", "l")>>],
     [c \in {"technical", "role_specific"} |-> <<Tok("xp", "l")>>]}

\* <<resume_data, heap>>
WithExperience(experience) ==
    <<[k \in {"experience"} |-> "exp"],
      [exp |-> experience, kw |-> EmptyDict, kwnew |-> EmptyDict]>>

WithKeywords(r, section) ==
    <<DictSet(r[1], "keywords", "kw"), [r[2] EXCEPT !.kw = section]>>

NoExperience == <<EmptyDict, NoHeap>>

Resumes ==
    {WithExperience(e) : e \in Experiences}
    \cup {NoExperience, WithExperience(<<>>)}

FewResumes ==
    {WithExperience(e) : e \in FewExperiences}
    \cup {WithKeywords(r, section) :
              r \in {WithExperience(e) : e \in FewExperiences} \cup {NoExperience},
              section \in KeywordsSections}
    \cup {NoExperience}

\* experience whose dicts lack optional keys: a job without achievements,
\* title, company or description, achievements without text or keywords
SparseExperiences ==
    {<<Without(Job(<<>>), {"achievements"})>>,
     <<Without(Job(<<Achievement(<<Tok("python", "t")>>, <<>>, "value")>>),
               {"title", "company", "description"})>>,
     <<[Job(<<Achievement(<<Tok("python", "t")>>, <<>>, "none"),
              Achievement(<<>>, <<Tok("python", "l")>>, "none"),
              Achievement(<<>>, <<>>, "none")>>)
           EXCEPT !.achievements[1] = Without(@, {"keywords"}),
                  !.achievements[2] = Without(@, {"text"}),
                  !.achievements[3] = Without(@, {"text", "keywords"})]>>}

SparseResumes ==
    {WithExperience(e) : e \in SparseExperiences} \cup {NoExperience}

\* what is passed for resume_data when it is no dict: None, a str, a list
NonMappingResumes ==
    {<<NonMapping(class), NoHeap>> : class \in {"NoneType", "str", "list"}}

\* <<job_description, role_keywords_arg, <<resume_data, heap>>>>
CustomizeInputs ==
    (ShortJds \X RoleKeywordArgs \X (Resumes \cup FewResumes))
    \cup (RoleJds \X {None} \X FewResumes)
    \cup (ShortJds \X RoleKeywordArgs \X (SparseResumes \cup NonMappingResumes))

(***************************************************************************)
(* ResumeGenerator.customize_for_role (resume/generator.py)                *)
(***************************************************************************)
Init ==
    /\ pc = "start"
    /\ \E in \in CustomizeInputs :
           /\ job_description = in[1]
           /\ role_keywords_arg = in[2]
           /\ resume_data = in[3][1]
           /\ heap = in[3][2]
    /\ customized_data = EmptyDict
    /\ IdleExtractor
    /\ role_keywords = <<>>
    /\ scorer_jd = <<>>
    /\ keyword_weights = EmptyDict
    /\ calls = <<>>
    /\ IdleAts
    /\ IdleOther

\* the exception of the two loops over one job
JobRaises(job) ==
    FirstRaised(<<GetRaises(job, "achievements")>>
                \o [i \in 1..Len(job.achievements) |->
                       score_raises(job.achievements[i])])


\* customize_resume_data reading customized_data['experience']
CustomizeRaisesWithoutExperience(data, objects) ==
    IF ~IsMapping(data) THEN "AttributeError"
    ELSE IF "experience" \notin DOMAIN data THEN "KeyError"
    ELSE FirstRaised([j \in 1..Len(objects[data["experience"]]) |->
                         JobRaises(objects[data["experience"]][j])])

\* the exception customize_resume_data raises, "none" when it returns:
\* what is no dict has no .copy() or no .get(); a dict is read with .get()
customize_raises(data, objects) ==
    IF ~IsMapping(data) THEN "AttributeError"
    ELSE FirstRaised(
             <<GetRaises(data, "experience")>>
             \o (IF "experience" \in DOMAIN data
                 THEN [j \in 1..Len(objects[data["experience"]]) |->
                          JobRaises(objects[data["experience"]][j])]
                 ELSE <<>>))


\* copy.deepcopy(resume_data): the experience list and the keywords dict
\* of the copy are new objects
DeepCopy(data, objects) ==
    <<[k \in DOMAIN data |->
          IF k = "experience" THEN "expcopy"
          ELSE IF k = "keywords" THEN "kwcopy"
          ELSE data[k]],
      [r \in DOMAIN objects \cup {"expcopy", "kwcopy"} |->
          IF r = "expcopy" THEN objects.exp
          ELSE IF r = "kwcopy" THEN objects.kw
          ELSE objects[r]]>>

\* resume_data.copy(): <<the new top-level mapping, the objects>>; the
\* mapping holds the references of the original and no object is created
ShallowCopy(data, objects) == <<data, objects>>

\* customized_data['keywords'] = {} whether or not the section is there
CopyWithNewKeywords(data) == DictSet(data, "keywords", "kwnew")

\* the keywords section created when absent
CopyWithKeywords(data) ==
    IF "keywords" \in DOMAIN data THEN data
    ELSE DictSet(data, "keywords", "kwnew")

\* <<customized_data, the objects>> when customize_resume_data returns
customize_resume_data(rks, weights, data, objects) ==
    LET copied == ShallowCopy(data, objects)
        scored ==
            IF "experience" \in DOMAIN copied[1]
            THEN [copied[2] EXCEPT ![copied[1]["experience"]] =
                     CustomizedExperience(rks, weights, @)]
            ELSE copied[2]
        customized == CopyWithKeywords(copied[1])
    IN  <<customized,
          [scored EXCEPT ![customized["keywords"]] =
              DictSet(IF "keywords" \in DOMAIN copied[1] THEN @ ELSE EmptyDict,
                      "role_specific", RoleSpecific(rks))]>>

\* RelevanceScorer.customize_resume_data(resume_data)
CustomizeResumeData ==
    /\ pc = "scorer"
    /\ raised' = customize_raises(resume_data, heap)
    /\ IF raised' = "none"
       THEN LET result == customize_resume_data(role_keywords, keyword_weights,
                                                resume_data, heap)
            IN  /\ customized_data' = result[1]
                /\ heap' = result[2]
                /\ pc' = "done"
       ELSE /\ pc' = "raised"
            /\ UNCHANGED <<customized_data, heap>>
    /\ UNCHANGED <<job_description, role_keywords_arg, extractor_vars,
                   scorer_vars, calls, resume_data, ats_vars, threads>>

Next ==
    \/ ExtractKeywords
    \/ NewScorer
    \/ CustomizeResumeData

Spec == Init /\ [][Next]_vars

\* the same scorer called once more, on the mapping it returned or on the
\* caller's resume again
CustomizeAgain ==
    /\ pc = "done"
    /\ \E data \in {customized_data, resume_data} :
           LET result == customize_resume_data(role_keywords, keyword_weights,
                                               data, heap)
           IN  /\ raised' = customize_raises(data, heap)
               /\ customized_data' = result[1]
               /\ heap' = result[2]
    /\ pc' = "again"
    /\ UNCHANGED <<job_description, role_keywords_arg, extractor_vars,
                   scorer_vars, calls, resume_data, ats_vars, threads>>

NextTwice ==
    \/ ExtractKeywords
    \/ NewScorer
    \/ CustomizeResumeData
    \/ CustomizeAgain

\* <<job_description, role_keywords_arg, <<resume_data, heap>>>>
\* one job of two or more achievements, each matching through its text,
\* through its keywords, or not at all
TwiceResumes ==
    {WithExperience(<<Job(a)>>) :
        a \in {b \in SeqsUpTo({c \in AchUniverse :
                                   c.text = <<>> \/ c.keywords = <<>>}, MaxAch) :
                  Len(b) >= 2}}

TwiceInputs ==
    (ShortJds \X RoleKeywordArgs
        \X (TwiceResumes \cup FewResumes \cup SparseResumes))
    \cup (RoleJds \X {None} \X FewResumes)

InitTwice ==
    /\ pc = "start"
    /\ \E in \in TwiceInputs :
           /\ job_description = in[1]
           /\ role_keywords_arg = in[2]
           /\ resume_data = in[3][1]
           /\ heap = in[3][2]
    /\ customized_data = EmptyDict
    /\ IdleExtractor
    /\ role_keywords = <<>>
    /\ scorer_jd = <<>>
    /\ keyword_weights = EmptyDict
    /\ calls = <<>>
    /\ IdleAts
    /\ IdleOther

SpecTwice == InitTwice /\ [][NextTwice]_vars

(***************************************************************************)
(* ScoringService (backend/services/scoring.py).  The score is kept in     *)
(* hundredths: 100.0 is 10000.                                             *)
(***************************************************************************)
RECURSIVE Concat(_)
Concat(texts) ==
    IF texts = <<>> THEN <<>> ELSE Head(texts) \o Concat(Tail(texts))

\* the text parts of the personal section: name and location
PersonalParts(data) ==
    IF "personal" \in DOMAIN data
    THEN data["personal"].name \o data["personal"].location
    ELSE <<>>

\* the headline and the bullets
SummaryParts(data) ==
    IF "summary" \in DOMAIN data
    THEN data["summary"].headline \o Concat(data["summary"].bullets)
    ELSE <<>>

AchievementParts(achievement) == achievement.text \o achievement.keywords

JobParts(job) ==
    job.title \o job.company \o job.description
    \o Concat([i \in 1..Len(job.achievements) |->
                  AchievementParts(job.achievements[i])])

ExperienceParts(data, objects) ==
    IF "experience" \in DOMAIN data
    THEN Concat([j \in 1..Len(objects[data["experience"]]) |->
                    JobParts(objects[data["experience"]][j])])
    ELSE <<>>

\* one category: a dict of level -> list, or a list
SkillParts(skill_data) ==
    IF skill_data.nested
    THEN Concat(skill_data.levels)
    ELSE skill_data.items

\* skills is a sequence of categories, in the order of skills.items()
SkillsParts(data) ==
    IF "skills" \in DOMAIN data
    THEN Concat([c \in 1..Len(data["skills"]) |-> SkillParts(data["skills"][c])])
    ELSE <<>>

ProjectParts(project) ==
    project.name \o project.description \o project.keywords
    \o project.technologies

ProjectsParts(data) ==
    IF "projects" \in DOMAIN data
    THEN Concat([i \in 1..Len(data["projects"]) |->
                    ProjectParts(data["projects"][i])])
    ELSE <<>>

\* the text with the role_specific keywords of the keywords section
TextWithRoleSpecific(data, objects) ==
    PersonalParts(data) \o SummaryParts(data) \o ExperienceParts(data, objects)
    \o SkillsParts(data) \o ProjectsParts(data)
    \o (IF /\ "keywords" \in DOMAIN data
           /\ "role_specific" \in DOMAIN objects[data["keywords"]]
        THEN objects[data["keywords"]]["role_specific"]
        ELSE <<>>)

\* " ".join(text_parts): the education section is not read
_extract_resume_text(data, objects) ==
    PersonalParts(data) \o SummaryParts(data) \o ExperienceParts(data, objects)
    \o SkillsParts(data) \o ProjectsParts(data)

\* bool(resume_data.get(key)): the section is there and not empty
HasSection(data, objects, key) ==
    /\ key \in DOMAIN data
    /\ IF key = "experience" THEN objects[data[key]] # <<>>
       ELSE data[key] # <<>>

structure_bonus(data, objects) ==
    (IF HasSection(data, objects, "experience") THEN 5 ELSE 0)
    + (IF HasSection(data, objects, "skills") THEN 5 ELSE 0)
    + (IF HasSection(data, objects, "education") THEN 5 ELSE 0)

\* round(a / n, 0), for a / n never half-way
RoundDiv(a, n) == (2 * a + n) \div (2 * n)

\* the keywords of keyword_set found in the lowercase resume text
Matches(keyword_set, resume_text_lower) ==
    Cardinality({k \in keyword_set : InText(resume_text_lower, k)})


\* calculate_ats_score without min(100.0, ...)
AtsScoreUnclamped(data, objects, kws) ==
    IF kws = <<>> THEN 0
    ELSE LET keyword_set == Range(LowerText(kws))
             resume_text_lower == LowerText(_extract_resume_text(data, objects))
             matches == Matches(keyword_set, resume_text_lower)
         IN  RoundDiv(matches * 10000, Cardinality(keyword_set))
             + 100 * structure_bonus(data, objects)

\* calculate_ats_score with the test for no keywords after the bonus
AtsScoreBonusFirst(data, objects, kws) ==
    IF kws = <<>> THEN 100 * structure_bonus(data, objects)
    ELSE LET keyword_set == Range(LowerText(kws))
             resume_text_lower == LowerText(_extract_resume_text(data, objects))
             matches == Matches(keyword_set, resume_text_lower)
         IN  Min(10000, RoundDiv(matches * 10000, Cardinality(keyword_set))
                        + 100 * structure_bonus(data, objects))

\* calculate_ats_score counting the keywords the resume text lacks
AtsScoreByMisses(data, objects, kws) ==
    IF kws = <<>> THEN 0
    ELSE LET keyword_set == Range(LowerText(kws))
             resume_text_lower == LowerText(_extract_resume_text(data, objects))
             misses == Cardinality(keyword_set)
                       - Matches(keyword_set, resume_text_lower)
         IN  Min(10000, RoundDiv(misses * 10000, Cardinality(keyword_set))
                        + 100 * structure_bonus(data, objects))

calculate_ats_score(data, objects, kws) ==
    IF kws = <<>> THEN 0
    ELSE LET keyword_set == Range(LowerText(kws))
             resume_text_lower == LowerText(_extract_resume_text(data, objects))
             matches == Matches(keyword_set, resume_text_lower)
             match_percentage ==
                 RoundDiv(matches * 10000, Cardinality(keyword_set))
         IN  Min(10000, match_percentage + 100 * structure_bonus(data, objects))

(***************************************************************************)
(* Inputs of the scoring service                                           *)
(***************************************************************************)
AtsKeywordTokens ==
    {Tok("python", "l"), Tok("python", "t"), Tok("java", "l"), Tok("xp", "u")}

AtsKeywordLists == SeqsUpTo(AtsKeywordTokens, MaxAtsKeywords)

TitledJob(title, achievements) == [Job(achievements) EXCEPT !.title = title]

AtsExperiences ==
    {<<>>,
     <<TitledJob(<<Tok("xp", "l")>>, <<>>)>>,
     <<TitledJob(<<>>, <<Achievement(<<Tok("javascript", "t")>>,
                                     <<Tok("python", "u")>>, "none")>>)>>}

Flat(items) == [nested |-> FALSE, items |-> items, levels |-> <<>>]

Nested(levels) == [nested |-> TRUE, items |-> <<>>, levels |-> levels]

AtsSkills ==
    {<<>>,
     <<Flat(<<Tok("python", "t")>>)>>,
     <<Nested(<< <<Tok("java", "l")>>, <<Tok("termaa", "l")>> >>), Flat(<<>>)>>}

AtsEducations == {<<>>, <<[degree |-> <<Tok("python", "l")>>]>>}

AtsOthers ==
    {EmptyDict,
     [k \in {"personal", "summary"} |->
         IF k = "personal"
         THEN [name |-> <<Tok("termab", "t")>>, location |-> <<Tok("java", "t")>>]
         ELSE [headline |-> <<Tok("xp", "l")>>, bullets |-> <<>>]],
     [k \in {"projects", "summary"} |->
         IF k = "projects"
         THEN <<[name |-> <<>>, description |-> <<Tok("termaa", "l")>>,
                 keywords |-> <<Tok("python", "l")>>,
                 technologies |-> <<Tok("xp", "l")>>]>>
         ELSE [headline |-> <<>>,
               bullets |-> << <<Tok("javascript", "l")>> >>]]}

\* the top-level mappings with the sections named in present
AtsMapping(present, skills, education, others) ==
    [k \in present \cup DOMAIN others |->
        IF k = "experience" THEN "exp"
        ELSE IF k = "skills" THEN skills
        ELSE IF k = "education" THEN education
        ELSE others[k]]

\* <<resume_data, heap>>
AtsResumes ==
    {<<AtsMapping(present, skills, education, others),
       [NoHeap EXCEPT !.exp = IF "experience" \in present THEN experience
                              ELSE <<>>]>> :
        present \in SUBSET {"experience", "skills", "education"},
        experience \in AtsExperiences,
        skills \in AtsSkills,
        education \in AtsEducations,
        others \in AtsOthers}

\* obj.get(key, ...) for each key of a sequence, in order
SectionRaises(obj, keys) ==
    FirstRaised([i \in 1..Len(keys) |-> GetRaises(obj, keys[i])])

\* what reading one job and its achievements raises
JobTextRaises(job) ==
    FirstRaised(
        <<SectionRaises(job, <<"title", "company", "description",
                               "achievements">>)>>
        \o [i \in 1..Len(job.achievements) |->
               SectionRaises(job.achievements[i], <<"text", "keywords">>)])

\* the exception _extract_resume_text raises on a dict: every field of a
\* section that is there is read with .get()
text_raises(data, objects) ==
    FirstRaised(
        <<IF "personal" \in DOMAIN data
          THEN SectionRaises(data["personal"], <<"name", "location">>)
          ELSE "none",
          IF "summary" \in DOMAIN data
          THEN SectionRaises(data["summary"], <<"headline", "bullets">>)
          ELSE "none",
          IF "experience" \in DOMAIN data
          THEN FirstRaised([j \in 1..Len(objects[data["experience"]]) |->
                               JobTextRaises(objects[data["experience"]][j])])
          ELSE "none",
          IF "projects" \in DOMAIN data
          THEN FirstRaised([i \in 1..Len(data["projects"]) |->
                               SectionRaises(data["projects"][i],
                                             <<"name", "description",
                                               "keywords", "technologies">>)])
          ELSE "none">>)

\* the exception calculate_ats_score raises, "none" when it returns.
\* Without keywords it returns at once; '"personal" in None' is a
\* TypeError, a list or a str (one that names no section) fails at
\* resume_data.get
ats_raises(data, objects, kws) ==
    IF kws = <<>> THEN "none"
    ELSE IF ~IsMapping(data)
    THEN (IF data["__class__"] = "NoneType" THEN "TypeError"
          ELSE "AttributeError")
    ELSE FirstRaised(<<text_raises(data, objects),
                       SectionRaises(data, <<"experience", "skills",
                                             "education">>)>>)

\* the resumes another resume is compared with: those without personal,
\* summary and projects sections
AtsPeers ==
    {<<AtsMapping(present, skills, education, EmptyDict),
       [NoHeap EXCEPT !.exp = IF "experience" \in present THEN experience
                              ELSE <<>>]>> :
        present \in SUBSET {"experience", "skills", "education"},
        experience \in AtsExperiences,
        skills \in AtsSkills,
        education \in AtsEducations}

(***************************************************************************)
(* ScoringService.calculate_ats_score(resume_data, keywords)               *)
(***************************************************************************)
InitAts ==
    /\ pc = "score"
    /\ job_description = <<>>
    /\ IdleExtractor
    /\ IdleScorer
    /\ \E r \in AtsResumes \cup NonMappingResumes \cup SparseResumes :
           resume_data = r[1] /\ heap = r[2]
    /\ customized_data = EmptyDict
    /\ ats_keywords \in AtsKeywordLists
    /\ ats_score = 0
    /\ IdleOther

CalculateAtsScore ==
    /\ pc = "score"
    /\ raised' = ats_raises(resume_data, heap, ats_keywords)
    /\ IF raised' = "none"
       THEN /\ ats_score' = calculate_ats_score(resume_data, heap, ats_keywords)
            /\ pc' = "scored"
       ELSE /\ pc' = "raised"
            /\ UNCHANGED ats_score
    /\ UNCHANGED <<job_description, role_keywords_arg, extractor_vars,
                   scorer_vars, calls, resume_vars, ats_keywords, threads>>

NextAts == CalculateAtsScore

SpecAts == InitAts /\ [][NextAts]_vars

(***************************************************************************)
(* SkillsProcessor (resume/skills_processor.py).  A skill is a token; a    *)
(* variation is a lowercase string, kept as one token whatever it holds.   *)
(***************************************************************************)
MaxSkills == 2

\* config/patterns.py, in the order of the dict
TECH_VARIATIONS ==
    <<[k |-> "javascript", v |-> <<"js", "ecmascript", "node.js", "nodejs">>],
      [k |-> "typescript", v |-> <<"ts">>],
      [k |-> "c#", v |-> <<"csharp", "c-sharp", "dotnet", ".net">>],
      [k |-> ".net core",
       v |-> <<"dotnet core", "asp.net core", "aspnet core">>],
      [k |-> "postgresql", v |-> <<"postgres", "psql">>],
      [k |-> "react", v |-> <<"reactjs", "react.js">>],
      [k |-> "aws", v |-> <<"amazon web services", "amazon cloud">>],
      [k |-> "ci/cd",
       v |-> <<"continuous integration", "continuous deployment", "cicd">>],
      [k |-> "api", v |-> <<"rest api", "restful api", "web api">>],
      [k |-> "blockchain", v |-> <<"distributed ledger", "crypto", "web3">>],
      [k |-> "defi",
       v |-> <<"decentralized finance", "decentralised finance">>],
      [k |-> "fintech", v |-> <<"financial technology", "fin-tech">>]>>

\* TECH_VARIATIONS[skill.lower()] when the table has it, else []
get_skill_variations(skill) ==
    LET n == DictIndex(TECH_VARIATIONS, Lower(skill).word)
    IN  IF n = 0 THEN <<>>
        ELSE [i \in 1..Len(TECH_VARIATIONS[n].v) |->
                 Tok(TECH_VARIATIONS[n].v[i], "l")]


\* each skill followed at once by its own variations
ListKeywordsInterleaved(skill_list) ==
    Concat([i \in 1..Len(skill_list) |->
               <<skill_list[i]>> \o get_skill_variations(skill_list[i])])

\* keywords.extend(skill_list), then the variations of each skill in turn
ListKeywords(skill_list) ==
    skill_list
    \o Concat([i \in 1..Len(skill_list) |->
                  get_skill_variations(skill_list[i])])

\* one category: a dict of level -> list, or a list
CategoryKeywords(skill_category) ==
    IF skill_category.nested
    THEN Concat([l \in 1..Len(skill_category.levels) |->
                    ListKeywords(skill_category.levels[l])])
    ELSE ListKeywords(skill_category.items)

\* skills is the sequence of skills.values()
extract_skill_keywords(skills) ==
    Concat([c \in 1..Len(skills) |-> CategoryKeywords(skills[c])])

SkillTokens ==
    {Tok("javascript", "t"), Tok("python", "l"), Tok("aws", "u"),
     Tok("typescript", "l")}

SkillLists == SeqsUpTo(SkillTokens, MaxSkills)

SkillCategories ==
    {Flat(l) : l \in SkillLists}
    \cup {Nested(<<l, <<Tok("aws", "l"), Tok("termaa", "l")>> >>) :
              l \in SkillLists}
    \cup {Nested(<<>>)}

SkillsMappings == SeqsUpTo(SkillCategories, 2)

InitSkills ==
    /\ pc = "skills"
    /\ job_description = <<>>
    /\ IdleExtractor
    /\ IdleScorer
    /\ \E skills \in SkillsMappings :
           resume_data = [k \in {"skills"} |-> skills]
    /\ customized_data = EmptyDict
    /\ heap = NoHeap
    /\ IdleAts
    /\ IdleOther

\* SkillsProcessor.extract_skill_keywords(self.data.get('skills', {}))
ExtractSkillKeywords ==
    /\ pc = "skills"
    /\ calls' = Append(calls,
                       [arg |-> resume_data["skills"],
                        ret |-> extract_skill_keywords(resume_data["skills"])])
    /\ pc' = "extracted"
    /\ UNCHANGED <<job_description, role_keywords_arg, extractor_vars,
                   scorer_vars, resume_vars, ats_vars, other_vars>>

NextSkills == ExtractSkillKeywords

SpecSkills == InitSkills /\ [][NextSkills]_vars

(***************************************************************************)
(* The optimize flow of the two entry points that report a default and an  *)
(* optimized score: the legacy app (app.py) scores the resume and then     *)
(* customizes it; the backend route (backend/api/routes.py) first calls    *)
(* ResumeService.optimize_resume, which customizes, and scores afterwards. *)
(* calls logs the calculate_ats_score calls with the jobs each one read.   *)
(***************************************************************************)
\* sections whose dicts lack optional keys
SparseOthers ==
    {[k \in {"personal", "summary"} |->
         IF k = "personal"
         THEN Without([name |-> <<>>, location |-> <<Tok("java", "t")>>],
                      {"name"})
         ELSE Without([headline |-> <<Tok("xp", "l")>>, bullets |-> <<>>],
                      {"bullets"})],
     [k \in {"personal", "projects"} |->
         IF k = "personal"
         THEN Without([name |-> <<>>, location |-> <<>>], {"name", "location"})
         ELSE <<Without([name |-> <<>>, description |-> <<>>,
                         keywords |-> <<Tok("python", "l")>>,
                         technologies |-> <<>>],
                        {"name", "description", "technologies"})>>]}

\* <<resume_data, heap>>
OptimizeResumes ==
    SparseResumes
    \cup FewResumes
    \cup {<<AtsMapping({"experience"}, <<>>, <<>>, others),
            [NoHeap EXCEPT !.exp = experience]>> :
              others \in SparseOthers,
              experience \in SparseExperiences \cup FewExperiences}
    \cup {<<AtsMapping({"experience", "skills"}, skills, <<>>, EmptyDict),
            [NoHeap EXCEPT !.exp = experience]>> :
              skills \in AtsSkills, experience \in FewExperiences}

InitOptimize ==
    /\ pc = "start"
    /\ job_description \in ShortJds
    /\ \E r \in OptimizeResumes : resume_data = r[1] /\ heap = r[2]
    /\ customized_data = EmptyDict
    /\ IdleExtractor
    /\ IdleScorer
    /\ IdleAts
    /\ IdleOther

\* role_keywords = extract_keywords_from_job_description(job_description)
OptimizeExtract ==
    /\ pc = "start"
    /\ keyword_scores' = ExtractPasses(job_description)
    /\ keywords' = ExtractResult(keyword_scores')
    /\ pc' = "keywords"
    /\ UNCHANGED <<job_description, role_keywords_arg, scorer_vars, calls,
                   resume_vars, ats_vars, other_vars>>

\* calculate_ats_score(data, role_keywords), logged as the default or the
\* optimized score
ScoreCall(which, data, from, to) ==
    /\ pc = from
    /\ ats_keywords' = keywords
    /\ raised' = ats_raises(data, heap, keywords)
    /\ IF raised' = "none"
       THEN /\ ats_score' = calculate_ats_score(data, heap, keywords)
            /\ calls' = Append(calls,
                               [which |-> which,
                                arg |-> IF "experience" \in DOMAIN data
                                        THEN heap[data["experience"]]
                                        ELSE <<>>,
                                ret |-> ats_score'])
            /\ pc' = to
       ELSE /\ pc' = "raised"
            /\ UNCHANGED <<ats_score, calls>>
    /\ UNCHANGED <<job_description, role_keywords_arg, extractor_vars,
                   scorer_vars, resume_vars, threads>>

\* generator.customize_for_role(job_description, role_keywords): a new
\* RelevanceScorer, then customize_resume_data(self.data)
CustomizeForRole(from, to) ==
    /\ pc = from
    /\ role_keywords' = keywords
    /\ scorer_jd' = LowerText(job_description)
    /\ keyword_weights' = _calculate_keyword_weights(role_keywords', scorer_jd')
    /\ raised' = customize_raises(resume_data, heap)
    /\ IF raised' = "none"
       THEN LET result == customize_resume_data(role_keywords',
                                                keyword_weights',
                                                resume_data, heap)
            IN  /\ customized_data' = result[1]
                /\ heap' = result[2]
                /\ pc' = to
       ELSE /\ pc' = "raised"
            /\ UNCHANGED <<customized_data, heap>>
    /\ UNCHANGED <<job_description, role_keywords_arg, extractor_vars, calls,
                   resume_data, ats_vars, threads>>

\* app.py: default score, customization, optimized score
AppDefaultScore == ScoreCall("default", resume_data, "keywords", "app_default")

AppCustomize == CustomizeForRole("app_default", "app_customized")

AppOptimizedScore ==
    ScoreCall("optimized", customized_data, "app_customized", "done")

\* routes.py: ResumeService.optimize_resume, default score, optimized score
ServiceOptimizeResume == CustomizeForRole("keywords", "service_returned")

RoutesDefaultScore ==
    ScoreCall("default", resume_data, "service_returned", "routes_default")

RoutesOptimizedScore ==
    ScoreCall("optimized", customized_data, "routes_default", "done")

NextOptimize ==
    \/ OptimizeExtract
    \/ AppDefaultScore
    \/ AppCustomize
    \/ AppOptimizedScore
    \/ ServiceOptimizeResume
    \/ RoutesDefaultScore
    \/ RoutesOptimizedScore

SpecOptimize == InitOptimize /\ [][NextOptimize]_vars

(***************************************************************************)
(* Two invocations of customize_resume_data, each on a scorer of its own,  *)
(* run by two threads on one resume.  A step is what one statement of the  *)
(* method does for one job; a thread switch inside a statement is left     *)
(* out.  The objects of the caller's resume are in heap, the objects an    *)
(* invocation creates are in the field own of its thread.                  *)
(***************************************************************************)
ConcurrentKeywords ==
    {<<Tok("python", "t")>>, <<Tok("aws", "l")>>,
     <<Tok("javascript", "l"), Tok("xp", "l")>>}

ConcurrentExperiences ==
    {<<Job(<<Achievement(<<Tok("python", "t")>>, <<>>, "none"),
             Achievement(<<>>, <<Tok("aws", "l"), Tok("xp", "l")>>, "none")>>)>>,
     <<Job(<<Achievement(<<Tok("python", "t")>>, <<>>, "none"),
             Achievement(<<>>, <<Tok("aws", "l"), Tok("xp", "l")>>, "none")>>),
       Job(<<Achievement(<<Tok("javascript", "l"), Tok("aws", "l")>>, <<>>,
                         "value"),
             Achievement(<<>>, <<Tok("python", "t")>>, "value")>>)>>,
     <<Job(<<>>)>>}

ConcurrentResumes ==
    {WithExperience(e) : e \in ConcurrentExperiences}
    \cup {WithKeywords(WithExperience(e), [c \in {"technical"} |-> <<Tok("aws", "l")>>]) :
              e \in ConcurrentExperiences}
    \cup {NoExperience,
          WithKeywords(NoExperience, [c \in {"technical"} |-> <<Tok("aws", "l")>>])}

\* the objects an invocation sees: its own and the caller's
View(own, objects) ==
    [r \in DOMAIN own \cup DOMAIN objects |->
        IF r \in DOMAIN own THEN own[r] ELSE objects[r]]

\* the structure a mapping stands for, its references followed
Structure(data, objects) ==
    [keys |-> DOMAIN data,
     experience |->
        IF "experience" \in DOMAIN data THEN objects[data["experience"]]
        ELSE <<>>,
     keywords |->
        IF "keywords" \in DOMAIN data THEN objects[data["keywords"]]
        ELSE EmptyDict]

\* what customize_resume_data returns when nothing else runs
Alone(rks, weights, data, objects) ==
    LET result == customize_resume_data(rks, weights, data, objects)
    IN  Structure(result[1], result[2])

\* a RelevanceScorer about to be called on the resume
NewThread(rks, data, objects) ==
    [pc |-> "call",
     role_keywords |-> rks,
     keyword_weights |-> _calculate_keyword_weights(rks, <<>>),
     customized_data |-> EmptyDict,
     own |-> EmptyDict,
     job |-> 1,
     returned |-> Structure(EmptyDict, objects),
     alone |-> Alone(rks, _calculate_keyword_weights(rks, <<>>), data, objects)]

InitConcurrent ==
    /\ pc = "threads"
    /\ job_description = <<>>
    /\ IdleExtractor
    /\ IdleScorer
    /\ customized_data = EmptyDict
    /\ IdleAts
    /\ raised = "none"
    /\ \E r \in ConcurrentResumes :
           \E rks1 \in ConcurrentKeywords :
               \E rks2 \in ConcurrentKeywords \ {rks1} :
                   /\ resume_data = r[1]
                   /\ heap = r[2]
                   /\ threads = <<NewThread(rks1, r[1], r[2]),
                                  NewThread(rks2, r[1], r[2])>>

\* the jobs thread t iterates over
ThreadJobs(t) ==
    View(threads[t].own, heap)[threads[t].customized_data["experience"]]

\* thread t becomes next and the object ref becomes val, in own or in heap
Store(t, next, ref, val) ==
    IF ref \in DOMAIN threads[t].own
    THEN /\ threads' = [threads EXCEPT ![t] = [next EXCEPT !.own[ref] = val]]
         /\ heap' = heap
    ELSE /\ threads' = [threads EXCEPT ![t] = next]
         /\ heap' = [heap EXCEPT ![ref] = val]

ConcurrentUnchanged ==
    UNCHANGED <<pc, job_description, role_keywords_arg, extractor_vars,
                scorer_vars, calls, resume_data, customized_data, ats_vars,
                raised>>

\* customized_data = resume_data.copy()
ThreadCopy(t) ==
    /\ threads[t].pc = "call"
    /\ LET copied == ShallowCopy(resume_data, heap)
       IN  threads' =
               [threads EXCEPT ![t] =
                   [@ EXCEPT
                       !.customized_data = copied[1],
                       !.own =
                           [r \in DOMAIN copied[2] \ DOMAIN heap |->
                               copied[2][r]],
                       !.job = 1,
                       !.pc = IF "experience" \in DOMAIN copied[1]
                              THEN "score" ELSE "keywords"]]
    /\ heap' = heap
    /\ ConcurrentUnchanged

\* the first loop: the achievements of the next job are scored
ThreadScore(t) ==
    /\ threads[t].pc = "score"
    /\ LET jobs == ThreadJobs(t)
           j == threads[t].job
       IN  IF j <= Len(jobs)
           THEN Store(t, [threads[t] EXCEPT !.job = j + 1],
                      threads[t].customized_data["experience"],
                      [jobs EXCEPT
                          ![j] = ScoreJob(threads[t].role_keywords,
                                          threads[t].keyword_weights, jobs[j])])
           ELSE /\ threads' = [threads EXCEPT ![t].pc = "sort", ![t].job = 1]
                /\ heap' = heap
    /\ ConcurrentUnchanged

\* the second loop: achievements.sort(...) of the next job
ThreadSort(t) ==
    /\ threads[t].pc = "sort"
    /\ LET jobs == ThreadJobs(t)
           j == threads[t].job
       IN  IF j <= Len(jobs)
           THEN Store(t, [threads[t] EXCEPT !.pc = "force"],
                      threads[t].customized_data["experience"],
                      [jobs EXCEPT
                          ![j].achievements = SortAchievements(@)])
           ELSE /\ threads' = [threads EXCEPT ![t].pc = "keywords"]
                /\ heap' = heap
    /\ ConcurrentUnchanged

\* the second loop: the top of the job just sorted is forced to 1.0
ThreadForce(t) ==
    /\ threads[t].pc = "force"
    /\ LET jobs == ThreadJobs(t)
           j == threads[t].job
       IN  Store(t, [threads[t] EXCEPT !.pc = "sort", !.job = j + 1],
                 threads[t].customized_data["experience"],
                 [jobs EXCEPT ![j].achievements = ForceTop(@)])
    /\ ConcurrentUnchanged

\* customized_data['keywords']['role_specific'] = self.role_keywords[:20],
\* in a dict of the invocation's own when the resume has no keywords
ThreadKeywords(t) ==
    /\ threads[t].pc = "keywords"
    /\ LET customized == CopyWithKeywords(threads[t].customized_data)
           created == "keywords" \notin DOMAIN threads[t].customized_data
           own == IF created
                  THEN DictSet(threads[t].own, customized["keywords"], EmptyDict)
                  ELSE threads[t].own
           next == [threads[t] EXCEPT !.customized_data = customized,
                                      !.own = own,
                                      !.pc = "return"]
       IN  IF customized["keywords"] \in DOMAIN own
           THEN /\ threads' =
                       [threads EXCEPT ![t] =
                           [next EXCEPT !.own[customized["keywords"]] =
                               DictSet(@, "role_specific",
                                       RoleSpecific(threads[t].role_keywords))]]
                /\ heap' = heap
           ELSE /\ threads' = [threads EXCEPT ![t] = next]
                /\ heap' = [heap EXCEPT ![customized["keywords"]] =
                               DictSet(@, "role_specific",
                                       RoleSpecific(threads[t].role_keywords))]
    /\ ConcurrentUnchanged

\* return customized_data
ThreadReturn(t) ==
    /\ threads[t].pc = "return"
    /\ threads' =
           [threads EXCEPT ![t] =
               [@ EXCEPT !.pc = "returned",
                         !.returned =
                             Structure(threads[t].customized_data,
                                       View(threads[t].own, heap))]]
    /\ heap' = heap
    /\ ConcurrentUnchanged

NextConcurrent ==
    \E t \in 1..Len(threads) :
        \/ ThreadCopy(t)
        \/ ThreadScore(t)
        \/ ThreadSort(t)
        \/ ThreadForce(t)
        \/ ThreadKeywords(t)
        \/ ThreadReturn(t)

SpecConcurrent == InitConcurrent /\ [][NextConcurrent]_vars

(***************************************************************************)
(* POST /api/optimize (backend/api/routes.py): validation, the service     *)
(* with its two renderings, the two scores, the response.  The request is  *)
(* JSON with resumeData and jobDescription; the sections of resumeData are *)
(* dicts and lists as the validator expects them.  template.html and       *)
(* template.css are read without error.  An email is a sequence of         *)
(* characters; a job description of white space only has no token, as the  *)
(* empty one.                                                              *)
(***************************************************************************)
Letters ==
    {"a", "b", "c", "d", "e", "f", "g", "h", "i", "j", "k", "l", "m", "n",
     "o", "p", "q", "r", "s", "t", "u", "v", "w", "x", "y", "z",
     "A", "B", "C", "D", "E", "F", "G", "H", "I", "J", "K", "L", "M", "N",
     "O", "P", "Q", "R", "S", "T", "U", "V", "W", "X", "Y", "Z"}

Digits == {"0", "1", "2", "3", "4", "5", "6", "7", "8", "9"}

\* re.match(r"^[a-zA-Z0-9._%+-]+@[a-zA-Z0-9.-]+\.[a-zA-Z]{2,}$", email)
EmailMatches(email) ==
    \E at \in 2..Len(email) : \E dot \in (at + 2)..(Len(email) - 2) :
        /\ \A i \in 1..(at - 1) :
               email[i] \in Letters \cup Digits \cup {".", "_", "%", "+", "-"}
        /\ email[at] = "@"
        /\ \A i \in (at + 1)..(dot - 1) :
               email[i] \in Letters \cup Digits \cup {".", "-"}
        /\ email[dot] = "."
        /\ \A i \in (dot + 1)..Len(email) : email[i] \in Letters

_validate_personal_section(data) ==
    IF "personal" \notin DOMAIN data
    THEN <<"Missing required \"personal\" section">>
    ELSE LET personal == data["personal"]
         IN  (IF ~Has(personal, "name") \/ personal.name = <<>>
              THEN <<"Missing required personal.name">> ELSE <<>>)
             \o (IF ~Has(personal, "email") \/ personal.email = <<>>
                 THEN <<"Missing required personal.email">> ELSE <<>>)
             \o (IF /\ Has(personal, "email")
                    /\ personal.email # <<>>
                    /\ ~EmailMatches(personal.email)
                 THEN <<"Invalid email format in personal.email">>
                 ELSE <<>>)

_validate_achievements(achievements) ==
    Concat([i \in 1..Len(achievements) |->
               IF ~Has(achievements[i], "text")
               THEN <<"Achievement must have \"text\" field">>
               ELSE <<>>])

\* a missing section and a missing title, company or duration are warnings
_validate_experience_section(data, objects) ==
    IF "experience" \notin DOMAIN data THEN <<>>
    ELSE Concat([j \in 1..Len(objects[data["experience"]]) |->
                    IF Has(objects[data["experience"]][j], "achievements")
                    THEN _validate_achievements(
                             objects[data["experience"]][j].achievements)
                    ELSE <<>>])

\* result.errors; the skills and summary sections only add warnings
validate_resume(data, objects) ==
    IF ~IsMapping(data) THEN <<"Resume data must be a JSON object">>
    ELSE _validate_personal_section(data)
         \o _validate_experience_section(data, objects)

\* the errors of validate_job_description; length and sections are warnings
validate_job_description(jd) ==
    IF jd = <<>> THEN <<"Job description cannot be empty">> ELSE <<>>


\* obj[key]: a KeyError when the dict has no such key
SubscriptRaises(obj, key) == IF Has(obj, key) THEN "none" ELSE "KeyError"

\* obj[key] for each key of a sequence, in order
SubscriptsRaise(obj, keys) ==
    FirstRaised([i \in 1..Len(keys) |-> SubscriptRaises(obj, keys[i])])

\* for x in data.get(key, []): the list, which is in the heap for experience
ListOf(data, objects, key) ==
    IF key \notin DOMAIN data THEN <<>>
    ELSE IF key = "experience" THEN objects[data[key]]
    ELSE data[key]

\* _build_keywords: job['title'], job['company'], edu['degree']
keywords_raises(data, objects) ==
    FirstRaised(
        [j \in 1..Len(ListOf(data, objects, "experience")) |->
            SubscriptsRaise(ListOf(data, objects, "experience")[j],
                            <<"title", "company">>)]
        \o [e \in 1..Len(ListOf(data, objects, "education")) |->
               SubscriptRaises(ListOf(data, objects, "education")[e], "degree")])

\* _build_contact_section
contact_raises(data) ==
    FirstRaised(<<SubscriptRaises(data, "personal"),
                  IF "personal" \in DOMAIN data
                  THEN SubscriptsRaise(data["personal"],
                                       <<"name", "email", "phone", "location">>)
                  ELSE "none">>)

\* bullet.split(":", 1)[1]
BulletRaises(bullet) ==
    IF \E i \in 1..Len(bullet) : bullet[i].word = ":" THEN "none"
    ELSE "IndexError"

\* _build_summary_section
summary_raises(data) ==
    IF "summary" \notin DOMAIN data THEN SubscriptRaises(data, "summary")
    ELSE FirstRaised(
             <<SubscriptRaises(data["summary"], "bullets")>>
             \o [b \in 1..Len(data["summary"].bullets) |->
                    BulletRaises(data["summary"].bullets[b])]
             \o <<SubscriptRaises(data["summary"], "headline")>>)

\* _build_experience_section, one job
JobHtmlRaises(job) ==
    FirstRaised(
        <<SubscriptRaises(job, "achievements")>>
        \o [i \in 1..Len(job.achievements) |->
               SubscriptRaises(job.achievements[i], "text")]
        \o <<SubscriptsRaise(job, <<"title", "company", "location",
                                    "duration">>)>>)

experience_raises(data, objects) ==
    IF "experience" \notin DOMAIN data THEN SubscriptRaises(data, "experience")
    ELSE FirstRaised([j \in 1..Len(objects[data["experience"]]) |->
                         JobHtmlRaises(objects[data["experience"]][j])])

\* _build_projects_section
projects_raises(data) ==
    FirstRaised([i \in 1..Len(ListOf(data, <<>>, "projects")) |->
                    SubscriptsRaise(data["projects"][i],
                                    <<"achievements", "name", "description">>)])

\* _build_education_section
education_raises(data) ==
    IF "education" \notin DOMAIN data THEN SubscriptRaises(data, "education")
    ELSE FirstRaised([e \in 1..Len(data["education"]) |->
                         SubscriptsRaise(data["education"][e],
                                         <<"degree", "school", "duration">>)])

\* TemplateRenderer.render: the arguments of format() in their order
render_raises(data, objects) ==
    FirstRaised(<<SubscriptRaises(data, "personal"),
                  IF "personal" \in DOMAIN data
                  THEN SubscriptRaises(data["personal"], "name") ELSE "none",
                  keywords_raises(data, objects),
                  contact_raises(data),
                  summary_raises(data),
                  experience_raises(data, objects),
                  SubscriptRaises(data, "skills"),
                  projects_raises(data),
                  education_raises(data)>>)

\* ResumeService.optimize_resume: default html, customization, optimized
\* html; customization adds and removes no key the renderer reads
optimize_raises(data, objects) ==
    FirstRaised(<<render_raises(data, objects),
                  customize_raises(data, objects),
                  render_raises(data, objects)>>)

\* the characters of a@b.co, of a@b, and no email
ApiEmails ==
    {<<"a", "@", "b", ".", "c", "o">>, <<"a", "@", "b">>, <<>>}

FullPersonal(email) ==
    [name |-> <<Tok("termab", "t")>>, email |-> email,
     phone |-> <<Tok("555", "l")>>, location |-> <<Tok("java", "t")>>]

ApiPersonals ==
    {FullPersonal(email) : email \in ApiEmails}
    \cup {Without(FullPersonal(<<"a", "@", "b", ".", "c", "o">>), keys) :
              keys \in {{"phone", "location"}, {"name"}, {"email"}}}

FullSummary ==
    [headline |-> <<Tok("xp", "l")>>,
     bullets |-> << <<Tok("focus", "t"), Tok(":", "l"), Tok("python", "l")>> >>]

ApiSummaries ==
    {FullSummary,
     [FullSummary EXCEPT !.bullets = << <<Tok("javascript", "l")>> >>],
     Without(FullSummary, {"bullets"}),
     Without(FullSummary, {"headline"})}

\* a job with every key the renderer reads
ApiJob(achievements) ==
    [k \in DOMAIN Job(achievements) \cup {"location", "duration"} |->
        IF k = "title" THEN <<Tok("aws", "u")>>
        ELSE IF k \in {"location", "duration"} THEN <<Tok("termaa", "l")>>
        ELSE Job(achievements)[k]]

ApiAchievements ==
    {<<Achievement(<<Tok("python", "t")>>, <<>>, "none"),
       Achievement(<<Tok("javascript", "l")>>, <<Tok("xp", "l")>>, "value")>>,
     <<Achievement(<<>>, <<>>, "none"),
       Achievement(<<Tok("java", "l")>>, <<>>, "none"),
       Achievement(<<>>, <<Tok("python", "l")>>, "none")>>}

ApiExperiences ==
    {<<ApiJob(a)>> : a \in ApiAchievements}
    \cup {<<>>,
          <<Without(ApiJob(<<>>), {"title", "duration"})>>,
          <<Without(ApiJob(<<>>), {"achievements"})>>,
          <<[ApiJob(<<Achievement(<<>>, <<Tok("python", "l")>>, "none")>>)
                EXCEPT !.achievements[1] = Without(@, {"text"})]>>}

ApiEducation ==
    [degree |-> <<Tok("python", "l")>>, school |-> <<Tok("termab", "t")>>,
     duration |-> <<Tok("termaa", "l")>>]

ApiEducations == {<<>>, <<ApiEducation>>, <<Without(ApiEducation, {"degree"})>>}

ApiKeywordsSections ==
    {[c \in {"technical"} |-> <<Tok("aws", "l")>>],
     [c \in {"technical", "role_specific"} |-> <<Tok("python", "l")>>]}

\* <<resume_data, heap>>: the sections named in present
ApiResume(present, personal, summary, experience, education, section) ==
    <<[k \in present |->
          IF k = "personal" THEN personal
          ELSE IF k = "summary" THEN summary
          ELSE IF k = "experience" THEN "exp"
          ELSE IF k = "skills" THEN <<Flat(<<Tok("python", "t")>>)>>
          ELSE IF k = "education" THEN education
          ELSE "kw"],
      [NoHeap EXCEPT !.exp = experience, !.kw = section]>>

AllSections ==
    {"personal", "summary", "experience", "skills", "education", "keywords"}

ApiResumes ==
    {ApiResume(AllSections, personal, summary, experience, education, section) :
        personal \in ApiPersonals,
        summary \in ApiSummaries,
        experience \in ApiExperiences,
        education \in ApiEducations,
        section \in ApiKeywordsSections}
    \cup {ApiResume(AllSections \ absent,
                    FullPersonal(<<"a", "@", "b", ".", "c", "o">>), FullSummary,
                    <<ApiJob(a)>>, <<ApiEducation>>, EmptyDict) :
              absent \in (SUBSET AllSections) \ {{}},
              a \in ApiAchievements}

ApiJds == {<<>>, MixedJd, PlainJd}

InitApi ==
    /\ pc = "request"
    /\ job_description \in ApiJds
    /\ \E r \in ApiResumes : resume_data = r[1] /\ heap = r[2]
    /\ customized_data = EmptyDict
    /\ IdleExtractor
    /\ IdleScorer
    /\ IdleAts
    /\ IdleOther

\* the JSON of a response and its status
Response(status, keys, default_score, optimized_score) ==
    [status |-> status, keys |-> keys, success |-> "success" \in keys,
     defaultScore |-> default_score, optimizedScore |-> optimized_score]

\* the request as the validators judged it
Request ==
    [resume_errors |-> validate_resume(resume_data, heap),
     job_errors |-> validate_job_description(job_description)]

\* the two validations: 400 when one of them reports an error
ApiValidate ==
    /\ pc = "request"
    /\ IF Request.resume_errors # <<>> \/ Request.job_errors # <<>>
       THEN /\ calls' = Append(calls,
                   [arg |-> Request,
                    ret |-> Response(400, {"error", "validation_errors"}, 0, 0)])
            /\ pc' = "responded"
       ELSE /\ pc' = "validated"
            /\ UNCHANGED calls
    /\ UNCHANGED <<job_description, role_keywords_arg, extractor_vars,
                   scorer_vars, resume_vars, ats_vars, other_vars>>

\* ResumeService.optimize_resume(resume_data, job_description); what it
\* raises is caught and answered with 500
ApiOptimizeResume ==
    /\ pc = "validated"
    /\ keyword_scores' = ExtractPasses(job_description)
    /\ keywords' = ExtractResult(keyword_scores')
    /\ role_keywords' = keywords'
    /\ scorer_jd' = LowerText(job_description)
    /\ keyword_weights' = _calculate_keyword_weights(role_keywords', scorer_jd')
    /\ raised' = optimize_raises(resume_data, heap)
    /\ IF raised' = "none"
       THEN LET result == customize_resume_data(role_keywords',
                                                keyword_weights',
                                                resume_data, heap)
            IN  /\ customized_data' = result[1]
                /\ heap' = result[2]
                /\ pc' = "optimized"
                /\ UNCHANGED calls
       ELSE /\ calls' = Append(calls,
                   [arg |-> Request, ret |-> Response(500, {"error"}, 0, 0)])
            /\ pc' = "responded"
            /\ UNCHANGED <<customized_data, heap>>
    /\ UNCHANGED <<job_description, role_keywords_arg, resume_data, ats_vars,
                   threads>>

\* the two scores, then jsonify
ApiRespond ==
    /\ pc = "optimized"
    /\ ats_keywords' = keywords
    /\ raised' = FirstRaised(<<ats_raises(resume_data, heap, keywords),
                               ats_raises(customized_data, heap, keywords)>>)
    /\ ats_score' = IF raised' = "none"
                    THEN calculate_ats_score(customized_data, heap, keywords)
                    ELSE ats_score
    /\ calls' = Append(calls,
           [arg |-> Request,
            ret |-> IF raised' = "none"
                    THEN Response(200,
                                  {"success", "defaultHtml", "optimizedHtml",
                                   "defaultScore", "optimizedScore",
                                   "improvement", "optimizations", "keywords"},
                                  calculate_ats_score(resume_data, heap,
                                                      keywords),
                                  ats_score')
                    ELSE Response(500, {"error"}, 0, 0)])
    /\ pc' = "responded"
    /\ UNCHANGED <<job_description, role_keywords_arg, extractor_vars,
                   scorer_vars, resume_vars, threads>>

NextApi ==
    \/ ApiValidate
    \/ ApiOptimizeResume
    \/ ApiRespond

SpecApi == InitApi /\ [][NextApi]_vars

(***************************************************************************)
(* The point-breakdown score (services/scoring_service.py, and the same    *)
(* code in app.py), in hundredths of a point.                              *)
(***************************************************************************)
\* resume_data['personal'].values(), in the order the inputs hold them
PersonalValues(data) ==
    IF "personal" \in DOMAIN data
    THEN Concat([f \in 1..4 |->
                    IF <<"name", "email", "phone", "location">>[f]
                           \in DOMAIN data["personal"]
                    THEN data["personal"]
                             [<<"name", "email", "phone", "location">>[f]]
                    ELSE <<>>])
    ELSE <<>>

\* degree, school and description of every education entry
PointEducationParts(data) ==
    Concat([e \in 1..Len(ListOf(data, <<>>, "education")) |->
               Concat([f \in 1..3 |->
                          IF <<"degree", "school", "description">>[f]
                                 \in DOMAIN data["education"][e]
                          THEN data["education"][e]
                                   [<<"degree", "school", "description">>[f]]
                          ELSE <<>>])])

\* services/scoring_service.py _extract_resume_text
PointResumeText(data, objects) ==
    PersonalValues(data) \o SummaryParts(data) \o ExperienceParts(data, objects)
    \o SkillsParts(data) \o PointEducationParts(data)
    \o Concat([i \in 1..Len(ListOf(data, <<>>, "projects")) |->
                  data["projects"][i].name \o data["projects"][i].description
                  \o data["projects"][i].keywords])

\* min(40, (matched_keywords / 20) * 40) over role_keywords[:20]
keyword_score(data, objects, rks) ==
    LET resume_text == LowerText(PointResumeText(data, objects))
        top == Take(rks, 20)
        matched_keywords ==
            Cardinality({i \in 1..Len(top) : InText(resume_text, Lower(top[i]))})
    IN  Min(4000, matched_keywords * 200)

skills_score(data) ==
    IF "skills" \in DOMAIN data /\ data["skills"] # <<>> THEN 1500 ELSE 0

\* min(20, (achievement_count / 10) * 20)
achievement_score(data, objects) ==
    IF "experience" \in DOMAIN data
    THEN Min(2000,
             200 * Sum([j \in 1..Len(objects[data["experience"]]) |->
                           Len(objects[data["experience"]][j].achievements)]))
    ELSE 0

\* 5 each for name and email, 2.5 each for phone and location
contact_score(data) ==
    IF "personal" \in DOMAIN data
    THEN 500 * Cardinality({"name", "email"} \cap DOMAIN data["personal"])
         + 250 * Cardinality({"phone", "location"} \cap DOMAIN data["personal"])
    ELSE 0

summary_score(data) ==
    IF "summary" \in DOMAIN data /\ data["summary"].headline # <<>>
    THEN 1000 ELSE 0

education_score(data) ==
    IF "education" \in DOMAIN data /\ data["education"] # <<>> THEN 500 ELSE 0

\* the components and total_score before int() and min(100, ...)
PointBreakdown(data, objects, rks) ==
    [keywords |-> keyword_score(data, objects, rks),
     skills |-> skills_score(data),
     achievements |-> achievement_score(data, objects),
     contact |-> contact_score(data),
     summary |-> summary_score(data),
     education |-> education_score(data)]

total_score(b) ==
    b.keywords + b.skills + b.achievements + b.contact + b.summary + b.education

\* min(100, int(total_score)), in points
point_ats_score(data, objects, rks) ==
    Min(100, total_score(PointBreakdown(data, objects, rks)) \div 100)

PointPersonals ==
    {[f \in fields |-> <<Tok("termab", "t")>>] :
        fields \in SUBSET {"name", "email", "phone", "location"}}

\* jobs with no, three and eleven achievements
PointExperiences ==
    {<<>>,
     <<Job(<<>>)>>,
     <<Job([i \in 1..3 |-> Achievement(<<Tok("python", "t")>>, <<>>, "none")])>>,
     <<Job([i \in 1..3 |-> Achievement(<<Tok("python", "t")>>, <<>>, "none")]),
       Job([i \in 1..8 |-> Achievement(<<>>, <<Tok("aws", "l")>>, "none")])>>}

PointSkills == {<<>>, <<Flat(<<Tok("python", "t")>>)>>, <<Flat(Fillers(21))>>}

PointSummaries ==
    {[headline |-> <<Tok("xp", "l")>>, bullets |-> <<>>],
     [headline |-> <<>>, bullets |-> << <<Tok("java", "l")>> >>]}

\* no keyword, one, one given twice, and 21 keywords
PointKeywords ==
    {<<>>, <<Tok("python", "u")>>, <<Tok("python", "l"), Tok("python", "l")>>,
     Fillers(21)}

\* <<resume_data, heap>>
PointResumes ==
    {<<[k \in present |->
           IF k = "personal" THEN personal
           ELSE IF k = "summary" THEN summary
           ELSE IF k = "experience" THEN "exp"
           ELSE IF k = "skills" THEN skills
           ELSE <<[degree |-> <<Tok("java", "l")>>]>>],
       [NoHeap EXCEPT !.exp = experience]>> :
        present \in SUBSET {"personal", "summary", "experience", "skills",
                            "education"},
        personal \in PointPersonals,
        summary \in PointSummaries,
        experience \in PointExperiences,
        skills \in PointSkills}

InitPoints ==
    /\ pc = "score"
    /\ job_description = <<>>
    /\ IdleExtractor
    /\ IdleScorer
    /\ \E r \in PointResumes : resume_data = r[1] /\ heap = r[2]
    /\ customized_data = EmptyDict
    /\ ats_keywords \in PointKeywords
    /\ ats_score = 0
    /\ IdleOther

\* calculate_ats_score(resume_data, role_keywords), its components logged
CalculatePointScore ==
    /\ pc = "score"
    /\ ats_score' = point_ats_score(resume_data, heap, ats_keywords)
    /\ calls' = Append(calls,
                       [arg |-> ats_keywords,
                        ret |-> PointBreakdown(resume_data, heap, ats_keywords)])
    /\ pc' = "scored"
    /\ UNCHANGED <<job_description, role_keywords_arg, extractor_vars,
                   scorer_vars, resume_vars, ats_keywords, other_vars>>

NextPoints == CalculatePointScore

SpecPoints == InitPoints /\ [][NextPoints]_vars

(***************************************************************************)
(* Properties                                                              *)
(***************************************************************************)
\* the jobs of the customized resume
CustomizedJobs ==
    IF "experience" \in DOMAIN customized_data
    THEN heap[customized_data["experience"]]
    ELSE <<>>

\* what score_achievement computes for an achievement of the resume
Computed(achievement) ==
    score_achievement(role_keywords, keyword_weights, achievement)

\* C1: after customize_resume_data every achievement of every job carries a
\* relevance_score >= 0, and each job's achievements are in descending order
\* of relevance_score, those of equal score in their original relative order.
C1_ScoredSortedStable ==
    pc = "done" =>
        \A j \in 1..Len(CustomizedJobs) :
            LET as == CustomizedJobs[j].achievements
            IN  /\ \A i \in 1..Len(as) :
                       as[i].scored /\ as[i].relevance_score >= 0
                /\ \A i1, i2 \in 1..Len(as) :
                       i1 < i2 =>
                           /\ as[i1].relevance_score >= as[i2].relevance_score
                           /\ as[i1].relevance_score = as[i2].relevance_score
                                  => as[i1].id < as[i2].id

\* a job of three achievements was reordered and holds a tie
C1_Witness ==
    /\ pc = "done"
    /\ \E j \in 1..Len(CustomizedJobs) :
           LET as == CustomizedJobs[j].achievements
           IN  /\ Len(as) >= 3
               /\ \E i1, i2 \in 1..Len(as) :
                      i1 < i2 /\ as[i1].id > as[i2].id
               /\ \E i1, i2 \in 1..Len(as) :
                      /\ i1 < i2
                      /\ as[i1].relevance_score = as[i2].relevance_score
                      /\ as[i1].relevance_score > 0

\* the score the spec's three rules give: a role keyword matched by a tag is
\* not credited again for standing in the text
ScoreCreditedOnce(rks, weights, achievement) ==
    TagScore(rks, weights, achievement)
    + Sum([i \in 1..Len(rks) |->
              IF /\ InText(LowerText(achievement.text), Lower(rks[i]))
                 /\ Lower(rks[i]) \notin Range(LowerText(achievement.keywords))
              THEN (Get(weights, Lower(rks[i]), 50) * 7) \div 10
              ELSE 0])
    + (IF Truthy(achievement.metrics) THEN 100 ELSE 0)

\* C2: score_achievement never credits the same role keyword twice for one
\* achievement: a role keyword credited at full weight through a tag is not
\* credited again at weight x 0.7 for standing in the text.
C2_NoDoubleCounting ==
    \A c \in 1..Len(calls) :
        calls[c].ret =
            ScoreCreditedOnce(role_keywords, keyword_weights, calls[c].arg)

\* C3: the list extract returns has at most 60 entries, all lowercase, no
\* entry twice, none a stop word, none of length <= 2.
C3_ExtractedListWellFormed ==
    pc = "extracted" =>
        /\ Len(keywords) <= 60
        /\ \A i \in 1..Len(keywords) :
               /\ keywords[i].case = "l"
               /\ keywords[i].word \notin STOP_WORDS
               /\ WordLen(keywords[i].word) > 2
        /\ \A i1, i2 \in 1..Len(keywords) :
               i1 # i2 => keywords[i1] # keywords[i2]

\* more than 60 keywords passed the filter and a stop word was scored
C3_Witness ==
    /\ pc = "extracted"
    /\ Len(keywords) = 60
    /\ Len(keyword_scores) > 61
    /\ \E i \in 1..Len(keyword_scores) :
           keyword_scores[i].k.word \in STOP_WORDS

\* the entries of keyword_scores that pass the filter
Eligible ==
    {i \in 1..Len(keyword_scores) :
        /\ keyword_scores[i].k.word \notin STOP_WORDS
        /\ WordLen(keyword_scores[i].k.word) > 2
        /\ keyword_scores[i].v > 0}

\* entry i1 of keyword_scores ranks before entry i2
RanksBefore(i1, i2) ==
    \/ keyword_scores[i1].v > keyword_scores[i2].v
    \/ /\ keyword_scores[i1].v = keyword_scores[i2].v
       /\ i1 < i2

\* the place in keyword_scores of the keyword at place r of the output
Discovered(r) == DictIndex(keyword_scores, keywords[r])

\* C4: the output is in descending order of accumulated score, keywords of
\* equal score in the order of their discovery, and it is the first 60 of
\* that order.
C4_RankedByScoreThenDiscovery ==
    pc = "extracted" =>
        /\ \A r \in 1..Len(keywords) : Discovered(r) \in Eligible
        /\ \A r1, r2 \in 1..Len(keywords) :
               r1 < r2 => RanksBefore(Discovered(r1), Discovered(r2))
        /\ Len(keywords) = Min(60, Cardinality(Eligible))
        /\ \A i \in Eligible :
               (\A r \in 1..Len(keywords) : Discovered(r) # i)
                   => \A r \in 1..Len(keywords) : RanksBefore(Discovered(r), i)

\* 61 keywords passed the filter: the one discovered last has the highest
\* score, the others tie
C4_Witness ==
    /\ pc = "extracted"
    /\ Cardinality(Eligible) > 60
    /\ Len(keywords) = 60
    /\ keyword_scores[Discovered(1)].v > keyword_scores[Discovered(2)].v
    /\ keyword_scores[Discovered(2)].v = keyword_scores[Discovered(3)].v
    /\ Discovered(1) > Discovered(2)

\* C5: calculate_ats_score returns a value in [0, 100], also when the match
\* percentage plus the structural bonus exceeds 100.
C5_AtsScoreInRange ==
    pc = "scored" => ats_score >= 0 /\ ats_score <= 10000

\* every keyword matched and the resume earns a bonus
C5_Witness ==
    /\ pc = "scored"
    /\ ats_keywords # <<>>
    /\ \A i \in 1..Len(ats_keywords) :
           InText(LowerText(_extract_resume_text(resume_data, heap)),
                  Lower(ats_keywords[i]))
    /\ structure_bonus(resume_data, heap) = 15
    /\ ats_score = 10000

\* C6: calculate_ats_score returns 0.0 when the keyword list is empty,
\* whatever sections the resume has.
C6_NoKeywordsScoreZero ==
    pc = "scored" /\ ats_keywords = <<>> => ats_score = 0

\* no keywords, and a resume with experience, skills and education
C6_Witness ==
    /\ pc = "scored"
    /\ ats_keywords = <<>>
    /\ structure_bonus(resume_data, heap) = 15
    /\ ats_score = 0

\* the highest score score_achievement computes in a job
AllBelowOne(achievements) ==
    \A i \in 1..Len(achievements) : Computed(achievements[i]) < 100

\* C7: after customize_resume_data the first achievement of a job has
\* relevance_score >= 1.0: when the highest computed score of the job is
\* below 1 it is exactly 1.0, and the list is still in descending order.
C7_TopAtLeastOne ==
    pc = "done" =>
        \A j \in 1..Len(CustomizedJobs) :
            LET as == CustomizedJobs[j].achievements
            IN  as # <<>> =>
                    /\ as[1].relevance_score >= 100
                    /\ AllBelowOne(as) => as[1].relevance_score = 100
                    /\ ~AllBelowOne(as)
                           => as[1].relevance_score = Computed(as[1])
                    /\ \A i1, i2 \in 1..Len(as) :
                           i1 < i2 => as[i1].relevance_score
                                          >= as[i2].relevance_score

\* a job whose best computed score lies between 0 and 1
C7_Witness ==
    /\ pc = "done"
    /\ \E j \in 1..Len(CustomizedJobs) :
           LET as == CustomizedJobs[j].achievements
           IN  /\ Len(as) >= 2
               /\ AllBelowOne(as)
               /\ Computed(as[1]) > 0
               /\ as[1].relevance_score = 100
               /\ as[2].relevance_score > 0

\* C8: of two achievements that differ only in that one has metrics and the
\* other none, score_achievement scores the one with metrics exactly 1.0
\* higher.
C8_MetricsAddOne ==
    \A c1, c2 \in 1..Len(calls) :
        /\ calls[c1].arg.text = calls[c2].arg.text
        /\ calls[c1].arg.keywords = calls[c2].arg.keywords
        /\ ~Truthy(calls[c1].arg.metrics)
        /\ Truthy(calls[c2].arg.metrics)
        => calls[c2].ret = calls[c1].ret + 100

\* such a pair was scored by a scorer that has role keywords, none of which
\* the achievement matches: the bonus is the whole score
C8_Witness ==
    /\ \E c1, c2 \in 1..Len(calls) :
           /\ calls[c1].arg.text = calls[c2].arg.text
           /\ calls[c1].arg.keywords = calls[c2].arg.keywords
           /\ calls[c1].arg.metrics = "none"
           /\ Truthy(calls[c2].arg.metrics)
           /\ calls[c1].ret = 0
    /\ role_keywords # <<>>

\* the role_specific list of the customized resume
RoleSpecificWritten == heap[customized_data["keywords"]]["role_specific"]

\* C9: role_specific is the first 20 entries of the list the extractor
\* returned for the job description, in the same order (the whole list when
\* shorter), and the keywords section is created when the resume has none.
C9_RoleSpecificIsTop20 ==
    pc = "done" /\ ~role_keywords_arg.given =>
        /\ "keywords" \in DOMAIN customized_data
        /\ "role_specific" \in DOMAIN heap[customized_data["keywords"]]
        /\ Len(RoleSpecificWritten) = Min(20, Len(keywords))
        /\ \A i \in 1..Len(RoleSpecificWritten) :
               RoleSpecificWritten[i] = keywords[i]
        /\ keywords = ExtractResult(ExtractPasses(job_description))

\* 21 keywords were extracted and the resume had no keywords section
C9_Witness ==
    /\ pc = "done"
    /\ ~role_keywords_arg.given
    /\ Len(keywords) > 20
    /\ "keywords" \notin DOMAIN resume_data
    /\ "keywords" \in DOMAIN customized_data

\* C10, as claimed: with an empty job description every relevance_score is
\* 0, except the first of each job, which is 1.0.
C10_AllZeroButTop ==
    pc = "done" /\ job_description = <<>> /\ ~role_keywords_arg.given =>
        \A j \in 1..Len(CustomizedJobs) :
            LET as == CustomizedJobs[j].achievements
            IN  \A i \in 1..Len(as) :
                    as[i].relevance_score = (IF i = 1 THEN 100 ELSE 0)

\* C10, amended: with an empty job description an achievement with metrics
\* has relevance_score 1.0 and one without has 0, except that the first
\* achievement of a job in which none has metrics is forced to 1.0.
C10_MetricsOrZeroButTop ==
    pc = "done" /\ job_description = <<>> /\ ~role_keywords_arg.given =>
        \A j \in 1..Len(CustomizedJobs) :
            LET as == CustomizedJobs[j].achievements
            IN  \A i \in 1..Len(as) :
                    as[i].relevance_score =
                        (IF Truthy(as[i].metrics) THEN 100
                         ELSE IF i = 1 THEN 100
                         ELSE 0)

\* an empty job description and a job of three achievements, two of them
\* with metrics
C10_Witness ==
    /\ pc = "done"
    /\ job_description = <<>>
    /\ ~role_keywords_arg.given
    /\ \E j \in 1..Len(CustomizedJobs) :
           LET as == CustomizedJobs[j].achievements
           IN  /\ Len(as) >= 3
               /\ \E i \in 2..Len(as) : Truthy(as[i].metrics)
               /\ \E i \in 1..Len(as) : ~Truthy(as[i].metrics)

\* every word of the text is a stop word, in whatever letter case
StopWordsOnly(text) ==
    \A i \in 1..Len(text) :
        text[i].word = "." \/ Lower(text[i]).word \in STOP_WORDS

\* C11: extraction of an empty job description, and of one made of stop
\* words only, returns the empty list and raises nothing.
C11_StopWordsOnlyExtractsNothing ==
    (pc = "extracted" /\ StopWordsOnly(job_description))
        => (keywords = <<>> /\ raised = "none")

\* a stop word written as an acronym was counted by the technical-terms
\* pass and the returned list is empty all the same
C11_Witness ==
    /\ pc = "extracted"
    /\ StopWordsOnly(job_description)
    /\ keyword_scores # <<>>
    /\ keywords = <<>>
    /\ raised = "none"

\* C16: calls of extract_keywords_from_job_description on the same text
\* return the same ordered list, whatever was extracted before each of them.
C16_ExtractionDeterministic ==
    \A c1, c2 \in 1..Len(calls) :
        calls[c1].arg = calls[c2].arg => calls[c1].ret = calls[c2].ret

\* a text was extracted first and again after a different text whose
\* keywords are not among its own
C16_Witness ==
    /\ Len(calls) >= 3
    /\ calls[1].arg = calls[3].arg
    /\ calls[1].ret # <<>>
    /\ calls[2].arg # calls[1].arg
    /\ \E k \in Range(calls[2].ret) : k \notin Range(calls[1].ret)

\* C12: for a resume without the experience key customize_resume_data
\* returns, the returned mapping has no experience key either, and its
\* keywords.role_specific holds the first role keywords.
C12_NoExperienceStillCustomized ==
    (pc \in {"done", "raised"} /\ IsMapping(resume_data)
        /\ "experience" \notin DOMAIN resume_data)
    => /\ pc = "done"
       /\ raised = "none"
       /\ "experience" \notin DOMAIN customized_data
       /\ RoleSpecificWritten = Take(role_keywords, ROLE_SPECIFIC_MAX)

\* a resume without experience was customized for role keywords
C12_Witness ==
    /\ pc = "done"
    /\ "experience" \notin DOMAIN resume_data
    /\ role_keywords # <<>>
    /\ RoleSpecificWritten # <<>>

\* the jobs the caller reaches through the resume passed in
OriginalJobs ==
    IF "experience" \in DOMAIN resume_data
    THEN heap[resume_data["experience"]]
    ELSE <<>>

\* C13: the experience list of the returned mapping is the object of the
\* caller's resume, so the caller's resume shows the relevance scores and
\* the order of the returned one.
C13_NestedObjectsShared ==
    (pc = "done" /\ "experience" \in DOMAIN resume_data)
    => /\ "experience" \in DOMAIN customized_data
       /\ customized_data["experience"] = resume_data["experience"]
       /\ OriginalJobs = CustomizedJobs
       /\ \A j \in 1..Len(OriginalJobs) :
              \A i \in 1..Len(OriginalJobs[j].achievements) :
                  OriginalJobs[j].achievements[i].scored

\* the caller's resume shows an achievement list that was reordered
C13_Witness ==
    /\ pc = "done"
    /\ \E j \in 1..Len(OriginalJobs) :
           /\ Len(OriginalJobs[j].achievements) >= 2
           /\ OriginalJobs[j].achievements[1].id # 1
           /\ OriginalJobs[j].achievements[1].scored

\* C19: when resume_data is no dict, customize_resume_data raises
\* InvalidInputError and nothing else.
C19_InvalidInputErrorRaised ==
    (pc \in {"done", "raised"} /\ ~IsMapping(resume_data))
        => raised = "InvalidInputError"

\* how many keywords of the list the text of a resume holds
MatchCount(data, objects, kws) ==
    Matches(Range(LowerText(kws)), LowerText(_extract_resume_text(data, objects)))

\* the same ones of experience, skills and education are present
SameStructure(data1, objects1, data2, objects2) ==
    \A key \in {"experience", "skills", "education"} :
        HasSection(data1, objects1, key) = HasSection(data2, objects2, key)

\* C17: for the same keyword list and the same sections present, a resume
\* that matches no more keywords than the scored one scores no higher.
C17_ScoreMonotoneInMatches ==
    pc = "scored" =>
        \A peer \in AtsPeers :
            (/\ SameStructure(peer[1], peer[2], resume_data, heap)
             /\ MatchCount(peer[1], peer[2], ats_keywords)
                    <= MatchCount(resume_data, heap, ats_keywords))
            => calculate_ats_score(peer[1], peer[2], ats_keywords) <= ats_score

\* the scored resume matches more keywords than a peer of the same
\* structure and scores strictly higher, below the cap
C17_Witness ==
    /\ pc = "scored"
    /\ ats_score < 10000
    /\ \E peer \in AtsPeers :
           /\ SameStructure(peer[1], peer[2], resume_data, heap)
           /\ MatchCount(peer[1], peer[2], ats_keywords) >= 1
           /\ MatchCount(peer[1], peer[2], ats_keywords)
                  < MatchCount(resume_data, heap, ats_keywords)
           /\ calculate_ats_score(peer[1], peer[2], ats_keywords) < ats_score

\* the jobs as the caller passed them: nothing scored, nothing reordered
Untouched(jobs) ==
    \A j \in 1..Len(jobs) :
        \A i \in 1..Len(jobs[j].achievements) :
            /\ ~jobs[j].achievements[i].scored
            /\ jobs[j].achievements[i].id = i

C18_MissingFieldsNeverRaise ==
    IsMapping(resume_data) =>
        /\ raised = "none"
        /\ pc # "raised"
        /\ pc = "done" =>
               /\ Len(calls) = 2
               /\ "keywords" \in DOMAIN customized_data
               /\ \A j \in 1..Len(CustomizedJobs) :
                      \A i \in 1..Len(CustomizedJobs[j].achievements) :
                          LET a == CustomizedJobs[j].achievements[i]
                          IN  (Missing(a) = {"text", "keywords"}
                               /\ a.metrics = "none")
                              => /\ a.scored
                                 /\ a.relevance_score = IF i = 1 THEN 100 ELSE 0

\* a resume with a job without achievements, or with an achievement
\* without text and keywords, went through the whole flow
C18_Witness ==
    /\ pc = "done"
    /\ Len(calls) = 2
    /\ role_keywords # <<>>
    /\ \E j \in 1..Len(CustomizedJobs) :
           /\ Missing(CustomizedJobs[j]) = {}
           /\ \E i \in 1..Len(CustomizedJobs[j].achievements) :
                  Missing(CustomizedJobs[j].achievements[i])
                      = {"text", "keywords"}
    /\ "personal" \in DOMAIN resume_data
    /\ Missing(resume_data["personal"]) # {}

\* the skill lists of a skills structure, in the order they are traversed
RECURSIVE SkillListsOf(_)
SkillListsOf(skills) ==
    IF skills = <<>> THEN <<>>
    ELSE (IF Head(skills).nested THEN Head(skills).levels
          ELSE <<Head(skills).items>>)
         \o SkillListsOf(Tail(skills))

\* the synonyms the table gives for a skill
Synonyms(skill) ==
    IF \E n \in 1..Len(TECH_VARIATIONS) : TECH_VARIATIONS[n].k = Lower(skill).word
    THEN LET n == CHOOSE n \in 1..Len(TECH_VARIATIONS) :
                      TECH_VARIATIONS[n].k = Lower(skill).word
         IN  [i \in 1..Len(TECH_VARIATIONS[n].v) |->
                 [word |-> TECH_VARIATIONS[n].v[i], case |-> "l"]]
    ELSE <<>>

\* out holds the sequence part from position p on
HoldsAt(out, p, part) ==
    /\ p + Len(part) - 1 <= Len(out)
    /\ \A i \in 1..Len(part) : out[p + i - 1] = part[i]

\* C20 as stated: every skill is emitted, and a skill the table knows is
\* followed at once by its variations.
C20_VariationsFollowEachSkill ==
    \A c \in 1..Len(calls) :
        LET lists == SkillListsOf(calls[c].arg)
        IN  \A l \in 1..Len(lists) : \A i \in 1..Len(lists[l]) :
                \E p \in 1..Len(calls[c].ret) :
                    HoldsAt(calls[c].ret, p,
                            <<lists[l][i]>> \o Synonyms(lists[l][i]))

\* where the part of a skill list starts in the output
RECURSIVE ListOffset(_, _)
ListOffset(lists, l) ==
    IF l = 1 THEN 1
    ELSE ListOffset(lists, l - 1) + Len(lists[l - 1])
         + Sum([i \in 1..Len(lists[l - 1]) |-> Len(Synonyms(lists[l - 1][i]))])

\* where the synonyms of the i-th skill of a list start, after the list
SynonymOffset(list, i) ==
    Len(list) + Sum([h \in 1..(i - 1) |-> Len(Synonyms(list[h]))])

\* C20 amended: the output is, list by list, the skills of the list in
\* order followed by the variations of its skills in skill order, and
\* nothing else.
C20_VariationsFollowEachList ==
    \A c \in 1..Len(calls) :
        LET lists == SkillListsOf(calls[c].arg)
            out == calls[c].ret
        IN  /\ Len(out) = ListOffset(lists, Len(lists) + 1) - 1
            /\ \A l \in 1..Len(lists) :
                   /\ HoldsAt(out, ListOffset(lists, l), lists[l])
                   /\ \A i \in 1..Len(lists[l]) :
                          HoldsAt(out,
                                  ListOffset(lists, l)
                                      + SynonymOffset(lists[l], i),
                                  Synonyms(lists[l][i]))

\* a list of two skills the table knows was expanded: the second skill
\* stands between the first skill and the first skill's variations
C20_Witness ==
    /\ Len(calls) = 1
    /\ \E l \in 1..Len(SkillListsOf(calls[1].arg)) :
           LET list == SkillListsOf(calls[1].arg)[l]
           IN  /\ Len(list) = 2
               /\ Synonyms(list[1]) # <<>>
               /\ Synonyms(list[2]) # <<>>
               /\ list[1] # list[2]
    /\ Len(SkillListsOf(calls[1].arg)) >= 2

\* what the structure invocation t returned shows now
ReturnedNow(t) ==
    Structure(threads[t].customized_data, View(threads[t].own, heap))

\* the parts of the structures that are objects of the caller's resume
SharedParts == DOMAIN resume_data \cap {"experience", "keywords"}

\* C14: when two invocations with different role keywords have run on one
\* resume and what they produce alone differs in an object of that
\* resume, the structure one of them returned is not what it produces
\* alone, however their steps were interleaved.
C14_ConcurrentInvocationsInterfere ==
    (/\ Len(threads) = 2
     /\ \A t \in 1..2 : threads[t].pc = "returned"
     /\ threads[1].role_keywords # threads[2].role_keywords
     /\ \E part \in SharedParts :
            threads[1].alone[part] # threads[2].alone[part])
    => \E t \in 1..2 : ReturnedNow(t) # threads[t].alone

\* an interleaving of the score steps after which both invocations had,
\* at their return, an experience that neither produces alone
C14_Witness ==
    /\ Len(threads) = 2
    /\ \A t \in 1..2 :
           /\ threads[t].pc = "returned"
           /\ \A u \in 1..2 :
                  threads[t].returned.experience # threads[u].alone.experience

\* an achievement without what customization writes on it
Unscored(achievement) ==
    [achievement EXCEPT !.scored = FALSE, !.relevance_score = 0]

\* how often an achievement, its score set aside, is in a list
Copies(achievements, achievement) ==
    Cardinality({i \in 1..Len(achievements) :
                    Unscored(achievements[i]) = Unscored(achievement)})

\* after lists what before lists, in some order, scores set aside
Reordered(before, after) ==
    /\ Len(after) = Len(before)
    /\ \A i \in 1..Len(before) :
           Copies(after, before[i]) = Copies(before, before[i])

\* C21: a call of customize_resume_data that returns leaves the jobs in
\* place and every job as it was but for its achievements, which are the
\* achievements before the call in some order, each with its text,
\* keywords and metrics; only relevance_score is written.
C21_OnlyReordersAndAnnotates ==
    [][(pc = "scorer" /\ pc' = "done" /\ "experience" \in DOMAIN resume_data)
       => LET before == heap[resume_data["experience"]]
              after == heap'[customized_data'["experience"]]
          IN  /\ Len(after) = Len(before)
              /\ \A j \in 1..Len(before) :
                     /\ [after[j] EXCEPT !.achievements = <<>>]
                            = [before[j] EXCEPT !.achievements = <<>>]
                     /\ Reordered(before[j].achievements,
                                  after[j].achievements)]_vars

\* a job of three achievements came out in another order, one of them
\* with metrics and one that matched nothing
C21_Witness ==
    /\ pc = "done"
    /\ \E j \in 1..Len(CustomizedJobs) :
           LET achievements == CustomizedJobs[j].achievements
           IN  /\ Len(achievements) = 3
               /\ \E i \in 1..3 : achievements[i].id # i
               /\ \E i \in 1..3 : achievements[i].metrics = "value"
               /\ \E i \in 1..3 : ScoreOf(achievements[i]) = 0

\* C22: a request whose resume validate_resume accepts and whose job
\* description validate_job_description accepts is answered with status
\* 200, success true, the two documents and the two scores; never with 500.
C22_ValidatedRequestSucceeds ==
    \A c \in 1..Len(calls) :
        (calls[c].arg.resume_errors = <<>> /\ calls[c].arg.job_errors = <<>>)
        => /\ calls[c].ret.status = 200
           /\ calls[c].ret.success
           /\ {"defaultHtml", "optimizedHtml", "defaultScore",
               "optimizedScore"} \subseteq calls[c].ret.keys

\* C28: every 200 response of /api/optimize reports a defaultScore equal
\* to its optimizedScore, so the improvement is 0.
C28_ScoresAlwaysEqual ==
    \A c \in 1..Len(calls) :
        calls[c].ret.status = 200
        => calls[c].ret.defaultScore = calls[c].ret.optimizedScore

\* a 200 response with a score above 0 for a resume whose achievements
\* were reordered and which got role_specific keywords
C28_Witness ==
    /\ pc = "responded"
    /\ Len(calls) = 1
    /\ calls[1].ret.status = 200
    /\ calls[1].ret.optimizedScore > 0
    /\ RoleSpecificWritten # <<>>
    /\ "keywords" \notin DOMAIN resume_data
    /\ \E j \in 1..Len(CustomizedJobs) :
           \E i \in 1..Len(CustomizedJobs[j].achievements) :
               CustomizedJobs[j].achievements[i].id # i

\* the frequency bonus as the specification states it
FrequencyBonus(kw) ==
    LET occurrences == Cardinality(Occurrences(scorer_jd, kw))
    IN  IF occurrences <= 1 THEN 0
        ELSE IF 20 * occurrences > 100 THEN 100
        ELSE 20 * occurrences

HighValueBonus(kw) == IF kw.word \in HIGH_PRIORITY_TERMS THEN 30 ELSE 0

\* what the weight of a keyword holds beyond 1.0 and these two bonuses
ContextBonus(kw) ==
    keyword_weights[kw] - 100 - FrequencyBonus(kw) - HighValueBonus(kw)

\* the contexts that have the keyword in the window of their first
\* occurrence
ContextsWith(kw) ==
    {c \in 1..Len(requirement_contexts) :
        /\ ContextIn(scorer_jd, requirement_contexts[c])
        /\ InWindow(scorer_jd, kw,
                    ContextStart(scorer_jd, requirement_contexts[c]))}

\* C23: the weights are those of the lowercase role keywords; each is 1.0
\* plus the frequency bonus, plus the high-value bonus, plus 0.5 or
\* nothing for the requirement context, 0.5 only when some context has the
\* keyword; hence it is at least 1.0 and at most 2.8.
C23_WeightIsBaseAndBonuses ==
    pc = "scorer"
    => /\ DOMAIN keyword_weights = Range(LowerText(role_keywords))
       /\ \A kw \in DOMAIN keyword_weights :
              /\ ContextBonus(kw) \in {0, 50}
              /\ ContextBonus(kw) = 50 => ContextsWith(kw) # {}
              /\ keyword_weights[kw] >= 100
              /\ keyword_weights[kw] <= 280

\* a keyword that is in the window of two contexts, occurs more than
\* five times and is a high-value term: its weight is 2.8
C23_Witness ==
    /\ pc = "scorer"
    /\ \E kw \in DOMAIN keyword_weights :
           /\ Cardinality(ContextsWith(kw)) >= 2
           /\ Cardinality(Occurrences(scorer_jd, kw)) > 5
           /\ keyword_weights[kw] = 280

\* the keyword is in the window of some occurrence of some context
InSomeWindow(kw) ==
    \E c \in 1..Len(requirement_contexts) : \E i \in 1..Len(scorer_jd) :
        /\ PhraseAt(scorer_jd, i, requirement_contexts[c])
        /\ InWindow(scorer_jd, kw, Offset(scorer_jd, i))

\* C24: a role keyword has the requirement-context bonus exactly when it
\* lies in the 200 characters that follow some occurrence, the first or a
\* later one, of a requirement-context phrase.
C24_BonusForAnyOccurrence ==
    pc = "scorer"
    => \A kw \in DOMAIN keyword_weights :
           ContextBonus(kw) = 50 <=> InSomeWindow(kw)

\* what the priority patterns add for a keyword: N - index per match
PriorityShare(text_lower, kw) ==
    Sum([i \in 1..Len(PRIORITY_PATTERNS) |->
            IF kw.word \in PRIORITY_PATTERNS[i]
            THEN (Len(PRIORITY_PATTERNS) - (i - 1))
                 * Cardinality({j \in 1..Len(text_lower) : text_lower[j] = kw})
            ELSE 0])

\* 1 per acronym of the text that is the keyword and not on the deny list
AcronymShare(text, kw) ==
    Cardinality({i \in 1..Len(text) :
                    /\ IsAcronym(text[i])
                    /\ text[i].word \notin non_technical
                    /\ Lower(text[i]) = kw})

\* inc per occurrence as a term longer than 2 in a capture of the patterns
CaptureShare(text_lower, patterns, inc, kw) ==
    Sum([p \in 1..Len(patterns) |->
            inc * Cardinality({i \in CapturedPositions(text_lower, patterns[p]) :
                                  /\ TermOf(text_lower[i]) = kw
                                  /\ WordLen(kw.word) > 2})])

ScoreShares(text, kw) ==
    PriorityShare(LowerText(text), kw)
    + AcronymShare(text, kw)
    + CaptureShare(LowerText(text), requirement_patterns, 3, kw)
    + CaptureShare(LowerText(text), tech_stack_patterns, 2, kw)

\* the strings the passes can find in a text
Findable(text) ==
    Range(LowerText(text)) \cup {TermOf(Lower(text[i])) : i \in 1..Len(text)}

\* C25: after the four passes every keyword holds the sum of what the
\* passes add for it, each match adding again, and the keywords held are
\* those for which some pass adds something.
C25_ScoreIsSumOfPasses ==
    pc = "extracted"
    => /\ \A n \in 1..Len(keyword_scores) :
              /\ keyword_scores[n].v
                     = ScoreShares(job_description, keyword_scores[n].k)
              /\ \A o \in 1..Len(keyword_scores) :
                     keyword_scores[o].k = keyword_scores[n].k => o = n
       /\ \A kw \in Findable(job_description) :
              ScoreShares(job_description, kw) > 0
              => \E n \in 1..Len(keyword_scores) : keyword_scores[n].k = kw

\* a keyword to which all four passes added, and one that a pass matched
\* twice
C25_Witness ==
    /\ pc = "extracted"
    /\ \E n \in 1..Len(keyword_scores) :
           LET kw == keyword_scores[n].k
           IN  /\ PriorityShare(LowerText(job_description), kw) > 0
               /\ AcronymShare(job_description, kw) > 0
               /\ CaptureShare(LowerText(job_description),
                               requirement_patterns, 3, kw) > 0
               /\ CaptureShare(LowerText(job_description),
                               tech_stack_patterns, 2, kw) > 0

\* the degree, school and description of the education entries
EducationParts(data) ==
    IF "education" \in DOMAIN data
    THEN Concat([e \in 1..Len(data["education"]) |->
                    Concat([f \in 1..3 |->
                               IF <<"degree", "school", "description">>[f]
                                      \in DOMAIN data["education"][e]
                               THEN data["education"][e]
                                        [<<"degree", "school", "description">>[f]]
                               ELSE <<>>])])
    ELSE <<>>

\* C26: the score counts as matched every keyword that occurs in the
\* personal, summary, experience, skills or projects text or in the degree,
\* school or description of an education entry.
C26_EducationIsSearched ==
    (pc = "scored" /\ ats_keywords # <<>>)
    => LET keyword_set == Range(LowerText(ats_keywords))
           searched == LowerText(_extract_resume_text(resume_data, heap)
                                 \o EducationParts(resume_data))
       IN  ats_score
               = Min(10000,
                     RoundDiv(Matches(keyword_set, searched) * 10000,
                              Cardinality(keyword_set))
                     + 100 * structure_bonus(resume_data, heap))

\* C27: in the point-breakdown score the keyword points are at most 40,
\* the skills points 15 or 0, the achievement points at most 20, the
\* contact points at most 10, the summary points 10 or 0, the education
\* points 5 or 0; so their sum is at most 100 and the result is an integer
\* from 0 to 100.
C27_ComponentsWithinCaps ==
    \A c \in 1..Len(calls) :
        /\ calls[c].ret.keywords <= 4000
        /\ calls[c].ret.skills \in {0, 1500}
        /\ calls[c].ret.achievements <= 2000
        /\ calls[c].ret.contact <= 1000
        /\ calls[c].ret.summary \in {0, 1000}
        /\ calls[c].ret.education \in {0, 500}
        /\ total_score(calls[c].ret) <= 10000
        /\ ats_score \in 0..100

\* what the caller sees through the returned mapping
Customized(data, objects) ==
    [keys |-> DOMAIN data,
     experience |-> IF "experience" \in DOMAIN data
                    THEN objects[data["experience"]] ELSE <<>>,
     keywords |-> objects[data["keywords"]]]

\* C29: a second call of customize_resume_data on the same scorer, on the
\* returned mapping or on the same resume, returns what the first call
\* returned: the same order, the same relevance_score on every achievement,
\* the forced 1.0 included, and the same keywords.
C29_SecondCallChangesNothing ==
    [][(pc = "done" /\ pc' = "again")
       => /\ raised' = "none"
          /\ Customized(customized_data', heap')
                 = Customized(customized_data, heap)]_vars

\* after the second call: a job whose achievements were reordered, whose
\* top bullet holds a forced 1.0, and in which two achievements tie
C29_Witness ==
    /\ pc = "again"
    /\ role_keywords # <<>>
    /\ \E j \in 1..Len(CustomizedJobs) :
           LET achievements == CustomizedJobs[j].achievements
           IN  /\ Len(achievements) >= 3
               /\ achievements[1].id # 1
               /\ achievements[1].relevance_score = 100
               /\ Computed(achievements[1]) < 100
               /\ Computed(achievements[1]) > 0
               /\ ScoreOf(achievements[2]) = ScoreOf(achievements[3])

\* C30: when customize_resume_data returns, the caller's mapping holds
\* keywords.role_specific exactly when it had a keywords section before the
\* call: a section that was there is the object of the returned mapping and
\* gets role_specific, its other categories as they were; a section that
\* was absent is created in the returned mapping only.
C30_RoleSpecificInCallersKeywords ==
    [][(pc = "scorer" /\ pc' = "done")
       => /\ DOMAIN resume_data' = DOMAIN resume_data
          /\ "keywords" \in DOMAIN customized_data'
          /\ IF "keywords" \in DOMAIN resume_data
             THEN LET before == heap[resume_data["keywords"]]
                      after == heap'[resume_data'["keywords"]]
                  IN  /\ customized_data'["keywords"] = resume_data'["keywords"]
                      /\ DOMAIN after = DOMAIN before \cup {"role_specific"}
                      /\ after["role_specific"] = RoleSpecific(role_keywords)
                      /\ \A c \in DOMAIN before \ {"role_specific"} :
                             after[c] = before[c]
             ELSE /\ customized_data'["keywords"]
                         \notin {resume_data'[k] : k \in DOMAIN resume_data'}
                  /\ "role_specific"
                         \in DOMAIN heap'[customized_data'["keywords"]]]_vars

\* a returned call on a resume whose keywords section held another
\* category: the caller's section now holds role_specific beside it
C30_Witness ==
    /\ pc = "done"
    /\ role_keywords # <<>>
    /\ "keywords" \in DOMAIN resume_data
    /\ DOMAIN heap[resume_data["keywords"]] = {"technical", "role_specific"}
    /\ heap[resume_data["keywords"]]["role_specific"] # <<>>
    /\ heap[resume_data["keywords"]]["technical"] # <<>>

====
